---- MODULE Spec2Model ----
(***************************************************************************)
(* Verification model of the gesture pipeline of Gesture_chrome_extension. *)
(*                                                                         *)
(* Part 1: pipeline/gesture_router.py (MultiplierTracker, GestureRouter),  *)
(* with the parts of pipeline/config_manager.py and of                     *)
(* pipeline/gesture_detector_fixed.py that GestureRouter.route reads.      *)
(*                                                                         *)
(* Part 2: pipeline/recorder.py (Recorder), with the template store of     *)
(* pipeline/config_manager.py it writes to.                                *)
(*                                                                         *)
(* Part 3: pipeline/gesture_detector_fixed.py (GestureDetector).           *)
(*                                                                         *)
(* Part 4: pipeline/dtw_matcher.py (DTWMatcher).                           *)
(***************************************************************************)
EXTENDS Integers, Sequences, FiniteSets, TLC

None == "None"

\* ------------------------------------------------------------------------
\* Bounds of the model
\* ------------------------------------------------------------------------

\* time.time() is a discrete clock.  A run of the debounce frames ends when
\* the clock would pass MaxTime, a run of the multiplier frames when it would
\* pass MaxHoldTime.
MaxTime == 4
MaxHoldTime == 3
\* hold_duration_seconds (0.5 s) counted in clock ticks
HoldTicks == 2
\* the clock advances by one or two ticks from one frame to the next
Dts == {1, 2}

\* The recorder's clock: ticks per second, the longest time between two
\* frames in ticks, and the number of start_session calls of a run.
TicksPerSecond == 2
MaxFrameGap == 3
MaxSessions == 2

\* ------------------------------------------------------------------------
\* Program constants
\* ------------------------------------------------------------------------

MaxFingerCount == 5
max_fingers == 5
max_product == 25
multiplier_on == TRUE

HandLabels == {"Left", "Right"}
Slots == {"Left", "Right", "Both"}

TAB_SWIPE_GESTURES == {"SWIPE_LEFT", "SWIPE_RIGHT"}

\* CONTINUOUS_SECONDARY.get(g)
CONTINUOUS_SECONDARY(g) == IF g = "PEACE" THEN "cursor_move" ELSE None

\* ------------------------------------------------------------------------
\* Configuration read through ConfigManager.  The router only reads it; the
\* model fixes one configuration: the default bindings of the task mapper
\* plus user bindings for PEACE, POINTING_UP, a recorded template and two
\* combos, so that every kind of binding occurs (one-shot, repeatable,
\* finger_count modifier, "none", a disabled gesture).  custom_idle is a
\* recorded template that was never bound: save_custom_gesture gave it the
\* binding "none".
\* ------------------------------------------------------------------------

StaticGestures == {"FIST", "PALM", "PEACE", "POINTING_UP", "OK"}
DynamicGestures == {"SWIPE_LEFT", "SWIPE_UP"}
CustomGestures == {"custom_wave", "custom_idle"}
ComboGestures == {"TWO_FISTS", "HIGH_FIVE", "DOUBLE_PEACE"}
GestureIds == StaticGestures \cup DynamicGestures \cup CustomGestures \cup ComboGestures

\* config["gestures"][g]["combo_rule"] of the gestures of type "combo"
combo_patterns ==
    [ TWO_FISTS |-> <<"FIST", "FIST">>,
      HIGH_FIVE |-> <<"PALM", "PALM">>,
      DOUBLE_PEACE |-> <<"PEACE", "PEACE">> ]

\* config["bindings"]
bindings ==
    [ g \in GestureIds |->
        CASE g = "FIST"         -> "tab_close"
          [] g = "PALM"         -> "none"
          [] g = "PEACE"        -> "cursor_activate"
          [] g = "POINTING_UP"  -> "scroll_up"
          [] g = "OK"           -> "tab_new"
          [] g = "SWIPE_LEFT"   -> "tab_switch_left"
          [] g = "SWIPE_UP"     -> "window_maximize"
          [] g = "custom_wave"  -> "custom_action"
          [] g = "custom_idle"  -> "none"
          [] g = "TWO_FISTS"    -> "none"
          [] g = "HIGH_FIVE"    -> "zoom_in"
          [] g = "DOUBLE_PEACE" -> "window_close" ]

ActionIds == {"tab_close", "cursor_activate", "cursor_move", "scroll_up", "tab_new",
              "tab_switch_left", "window_maximize", "custom_action",
              "window_close", "zoom_in"}

\* ConfigManager.is_gesture_enabled: OK is switched off, the others are on
is_gesture_enabled(g) == g \in GestureIds /\ g # "OK"

\* ConfigManager.get_binding
get_binding(g) ==
    IF ~is_gesture_enabled(g) THEN None
    ELSE IF bindings[g] # "none" THEN bindings[g] ELSE None

\* ConfigManager.is_repeatable: config["actions"][a]["repeatable"], default False
is_repeatable(a) == a \in {"scroll_up", "zoom_in"}

\* ConfigManager.action_has_modifier: config["actions"][a]["modifier"] == "finger_count"
action_has_modifier(a) == a \in {"tab_switch_left"}

Min(a, b) == IF a <= b THEN a ELSE b
Max(a, b) == IF a >= b THEN a ELSE b

\* Optional[float] / Optional[int]: <<>> is None, <<v>> is the value v
Nil == <<>>
Some(v) == <<v>>

\* ------------------------------------------------------------------------
\* State
\* ------------------------------------------------------------------------

VARIABLES
    now,            \* the value time.time() returns during the current frame
    hold_start,     \* MultiplierTracker._hold_start
    multiplier,     \* MultiplierTracker._multiplier
    last_gesture,   \* GestureRouter._last_gesture
    last_action,    \* GestureRouter._last_action
    frame,          \* the FrameResult of the last call of route
    events,         \* the list the last call of route returned
    run,            \* per hand: consecutive frames with its current resolved gesture
    fired,          \* per hand: primary events emitted during that run
    combo_run,      \* consecutive frames showing the current combo
    gap,            \* the debounce slots a no-hands frame wiped, for one more frame
    landmark_buf,   \* GestureRouter._landmark_buf: per hand the landmarks pushed so far
    dtw_input,      \* per hand: the sequence the last call of route gave match_dynamic
    hands_lost,     \* the landmarks a hand would have had in the last frame without
                    \* hands: when that frame was taken, 0 before the first
    recorder,       \* the Recorder object: its fields, see NewRecorder
    cfg,            \* ConfigManager._config: custom_gestures and bindings
    returned,       \* what the last call of a Recorder method returned
    log,            \* the states _transition entered during that call
    last_call,      \* the Recorder method called last, with its arguments
    sessions,       \* calls of start_session so far
    saves,          \* calls of save_custom_gesture so far
    completes,      \* "complete" events returned so far
    dropped,        \* a session holding samples was cancelled or replaced
    notified,       \* the remaining seconds last shown in the running countdown, see Shown
    detector,       \* the GestureDetector object: its rolling buffers, see NewDetector
    tracked,        \* the hands the tracker reported in the last frame
    detected,       \* the FrameResult the last call of process_frame returned
    raised,         \* the exception the last call of process_frame ended with
    running,        \* the frame loop of main.py has not ended
    streak,         \* per hand: consecutive frames with its current raw static label
    live,           \* the live data of the last call of match_static / match_dynamic
    matched,        \* the id that call returned
    fresh,          \* no template was written to the store since that call
    applied,        \* a call of a single function: its name, arguments and value
    lookup,         \* the frame thread inside ConfigManager.custom_gestures, see NoLookup
    store_object,   \* which dict object ConfigManager._config is: the number of reloads
    frame_thread,   \* the frame thread inside Recorder.update, see NoUpdate
    command,        \* the last recording command the WebSocket thread handled
    earlier,        \* the detector as it was before the last frame was processed
    serving,        \* HTTPServer._running
    event_queue,    \* HTTPServer._event_queue: the messages waiting, oldest first
    clients,        \* HTTPServer._clients: the clients streaming from /events
    received,       \* per client: the messages its stream has yielded so far
    sent            \* the events given to broadcast so far, each with the clients
                    \* that were connected then

router_vars == <<now, hold_start, multiplier, last_gesture, last_action, frame, events,
                 run, fired, combo_run, gap, landmark_buf, dtw_input, hands_lost>>
recorder_vars == <<recorder, cfg, returned, log, last_call, sessions, saves, completes,
                   dropped, notified>>
detector_vars == <<detector, tracked, detected, raised, running, streak>>
matcher_vars == <<live, matched, fresh>>
function_vars == <<applied>>
store_vars == <<lookup, store_object>>
race_vars == <<frame_thread, command>>
trace_vars == <<earlier>>
sse_vars == <<serving, event_queue, clients, received, sent>>
vars == <<now, hold_start, multiplier, last_gesture, last_action, frame, events,
          run, fired, combo_run, gap, landmark_buf, dtw_input, hands_lost,
          recorder, cfg, returned, log, last_call, sessions, saves, completes, dropped,
          notified,
          detector, tracked, detected, raised, running, streak, live, matched, fresh,
          applied, lookup, store_object, frame_thread, command, earlier,
          serving, event_queue, clients, received, sent>>

\* ------------------------------------------------------------------------
\* Inputs: HandResult and FrameResult (gesture_detector_fixed.py)
\* ------------------------------------------------------------------------

\* HandResult.  custom_match is what the template matcher answers for this
\* hand in this frame (DTWMatcher.match_dynamic when dynamic_gesture is set,
\* else DTWMatcher.match_static): None or the id of a stored template.
HandResult(label, st, dy, cm, stat, fc) ==
    [ label |-> label, static_gesture |-> st, dynamic_gesture |-> dy,
      custom_match |-> cm, is_stationary |-> stat, finger_count |-> fc ]

\* GestureDetector._detect_combo; hands is the list of the frame's HandResults
HandOf(hands, label) ==
    LET idx == { i \in 1..Len(hands) : hands[i].label = label }
    IN  hands[CHOOSE i \in idx : TRUE]

HasHand(hands, label) == \E i \in 1..Len(hands) : hands[i].label = label

_detect_combo(hands) ==
    IF ~HasHand(hands, "Left") \/ ~HasHand(hands, "Right") THEN None
    ELSE LET lg == HandOf(hands, "Left").static_gesture
             rg == HandOf(hands, "Right").static_gesture
         IN  IF lg = None \/ rg = None THEN None
             ELSE IF \E c \in DOMAIN combo_patterns : combo_patterns[c] = <<lg, rg>>
                  THEN CHOOSE c \in DOMAIN combo_patterns : combo_patterns[c] = <<lg, rg>>
                  ELSE None

\* FrameResult as GestureDetector.process_frame builds it: the hands in the
\* order the tracker reported them, and the combo computed from them.
FrameResult(hands) == [ hands |-> hands, combo_gesture |-> _detect_combo(hands) ]

\* the frames over a palette of per-hand observations
HandResults(label, statics, dynamics, customs, stats, counts) ==
    { HandResult(label, st, dy, cm, stat, fc) :
        st \in statics, dy \in dynamics, cm \in customs, stat \in stats, fc \in counts }

FramesOver(L, R) ==
    { FrameResult(hs) :
        hs \in {<<>>} \cup { <<l>> : l \in L } \cup { <<r>> : r \in R }
               \cup { <<l, r>> : l \in L, r \in R } \cup { <<r, l>> : r \in R, l \in L } }

\* ------------------------------------------------------------------------
\* MultiplierTracker.  A tracker is [hold_start, multiplier], each a function
\* on HandLabels.
\* ------------------------------------------------------------------------

NewTracker ==
    [ hold_start |-> [h \in HandLabels |-> Nil], multiplier |-> [h \in HandLabels |-> Nil] ]

\* the timer after "if self._hold_start[label] is None: ... = time.time()"
started(tr, label, t) ==
    IF tr.hold_start[label] = Nil THEN Some(t) ELSE tr.hold_start[label]

\* the value locked at the end of a hold: min(finger_count, self.max_fingers)
locked_value(finger_count) == Min(finger_count, max_fingers)

\* a hold that locks only after the duration has been exceeded
update_stationary_late(tr, label, finger_count, t) ==
    LET hs      == started(tr, label, t)
        elapsed == t - hs[1]
    IN  [ hold_start |-> [tr.hold_start EXCEPT ![label] = hs],
          multiplier |->
              IF elapsed > HoldTicks /\ tr.multiplier[label] = Nil
              THEN [tr.multiplier EXCEPT ![label] = Some(locked_value(finger_count))]
              ELSE tr.multiplier ]

\* a hold that takes 0 for "not locked" and locks again
update_stationary_relocks_zero(tr, label, finger_count, t) ==
    LET hs      == started(tr, label, t)
        elapsed == t - hs[1]
    IN  [ hold_start |-> [tr.hold_start EXCEPT ![label] = hs],
          multiplier |->
              IF elapsed >= HoldTicks /\ (tr.multiplier[label] = Nil \/ tr.multiplier[label] = Some(0))
              THEN [tr.multiplier EXCEPT ![label] = Some(locked_value(finger_count))]
              ELSE tr.multiplier ]

\* the branch "if is_stationary" of MultiplierTracker.update
update_stationary(tr, label, finger_count, t) ==
    LET hs      == started(tr, label, t)
        elapsed == t - hs[1]
    IN  [ hold_start |-> [tr.hold_start EXCEPT ![label] = hs],
          multiplier |->
              IF elapsed >= HoldTicks /\ tr.multiplier[label] = Nil
              THEN [tr.multiplier EXCEPT ![label] = Some(locked_value(finger_count))]
              ELSE tr.multiplier ]

\* the branch "else" of MultiplierTracker.update: the hand moved
update_moved(tr, label) ==
    [ hold_start |-> [tr.hold_start EXCEPT ![label] = Nil],
      multiplier |-> [tr.multiplier EXCEPT ![label] = Nil] ]

\* MultiplierTracker.update (its return value is not used by route)
update(tr, label, is_stationary, finger_count, t) ==
    IF is_stationary THEN update_stationary(tr, label, finger_count, t)
    ELSE update_moved(tr, label)

\* the multiplier read from the swiping hand itself
get_multiplier_for_same_hand(tr, swiping_hand) ==
    LET m == tr.multiplier[swiping_hand]
    IN  IF m = Nil \/ m[1] = 0 THEN 1 ELSE m[1]

\* MultiplierTracker.get_multiplier_for_other_hand: "self._multiplier.get(other) or 1";
\* Python's "or" takes 1 for None and for a locked 0 alike
get_multiplier_for_other_hand(tr, swiping_hand) ==
    LET other == IF swiping_hand = "Left" THEN "Right" ELSE "Left"
        m     == tr.multiplier[other]
    IN  IF m = Nil \/ m[1] = 0 THEN 1 ELSE m[1]

\* MultiplierTracker.clear
clear(tr) == NewTracker

\* route, lines 174-176: update the tracker for every hand of the frame
RECURSIVE update_hands(_, _, _)
update_hands(tr, hands, t) ==
    IF hands = <<>> THEN tr
    ELSE update_hands(
             IF multiplier_on
             THEN update(tr, Head(hands).label, Head(hands).is_stationary,
                         Head(hands).finger_count, t)
             ELSE tr,
             Tail(hands), t)

\* ------------------------------------------------------------------------
\* GestureRouter.  The debounce slots are [last_gesture, last_action], each
\* a function on Slots.
\* ------------------------------------------------------------------------

NewSlots ==
    [ last_gesture |-> [s \in Slots |-> None], last_action |-> [s \in Slots |-> None] ]

\* ActionEvent; meta is TRUE when pinch_distance and landmarks are attached
ActionEvent(action_id, gesture_id, hand, magnitude, repeatable, meta) ==
    [ action_id |-> action_id, gesture_id |-> gesture_id, hand |-> hand,
      magnitude |-> magnitude, repeatable |-> repeatable, meta |-> meta ]

\* GestureRouter._resolve_combo: the slots afterwards and the events (none or one)
_resolve_combo(db, fr) ==
    LET gid       == fr.combo_gesture
        action_id == get_binding(gid)
    IN  IF action_id = None THEN [ db |-> db, events |-> <<>> ]
        ELSE IF db.last_gesture["Both"] = gid /\ ~is_repeatable(action_id)
        THEN [ db |-> db, events |-> <<>> ]
        ELSE [ db |-> [ last_gesture |-> [db.last_gesture EXCEPT !["Both"] = gid],
                        last_action  |-> [db.last_action EXCEPT !["Both"] = action_id] ],
               events |-> << ActionEvent(action_id, gid, "Both", 1,
                                         is_repeatable(action_id), FALSE) >> ]

\* _resolve_hand, line 246: dynamic > static
detected_gesture(hr) ==
    IF hr.dynamic_gesture # None THEN hr.dynamic_gesture ELSE hr.static_gesture

\* _resolve_hand, lines 246-268: the gesture id after the template override
resolved_gesture(hr) ==
    IF detected_gesture(hr) = None THEN None
    ELSE IF hr.custom_match # None THEN hr.custom_match
    ELSE detected_gesture(hr)

\* _resolve_hand, lines 253-268: the action bound to it
resolved_action(hr) ==
    IF detected_gesture(hr) = None THEN None
    ELSE IF hr.custom_match # None THEN get_binding(hr.custom_match)
    ELSE get_binding(detected_gesture(hr))

\* _resolve_hand, line 276: the one-shot guard
one_shot_suppressed(db, label, gesture_id, repeatable) ==
    db.last_gesture[label] = gesture_id /\ ~repeatable

\* the finger count taken as it is
swipe_fingers_raw(finger_count) == finger_count

\* _resolve_hand, line 285
swipe_fingers(finger_count) == Max(1, finger_count)

\* _resolve_hand, lines 283-287
magnitude_of(gesture_id, action_id, hr, tr) ==
    IF gesture_id \in TAB_SWIPE_GESTURES /\ action_has_modifier(action_id)
    THEN Min(swipe_fingers(hr.finger_count) * get_multiplier_for_other_hand(tr, hr.label),
             max_product)
    ELSE 1

\* _resolve_hand, line 296: action_id.startswith("cursor") or a secondary's gesture
has_cursor_meta(gesture_id, action_id) ==
    action_id \in {"cursor_activate", "cursor_move"} \/ CONTINUOUS_SECONDARY(gesture_id) # None

\* GestureRouter._resolve_hand: the slots afterwards and the events (none or one)
_resolve_hand(db, tr, hr) ==
    LET gesture_id == resolved_gesture(hr)
        action_id  == resolved_action(hr)
        repeatable == is_repeatable(action_id)
    IN  IF detected_gesture(hr) = None
        THEN [ db |-> [ last_gesture |-> [db.last_gesture EXCEPT ![hr.label] = None],
                        last_action  |-> [db.last_action EXCEPT ![hr.label] = None] ],
               events |-> <<>> ]
        ELSE IF action_id = None THEN [ db |-> db, events |-> <<>> ]
        ELSE IF one_shot_suppressed(db, hr.label, gesture_id, repeatable)
        THEN [ db |-> db, events |-> <<>> ]
        ELSE [ db |-> [ last_gesture |-> [db.last_gesture EXCEPT ![hr.label] = gesture_id],
                        last_action  |-> [db.last_action EXCEPT ![hr.label] = action_id] ],
               events |-> << ActionEvent(action_id, gesture_id, hr.label,
                                         magnitude_of(gesture_id, action_id, hr, tr),
                                         repeatable,
                                         has_cursor_meta(gesture_id, action_id)) >> ]

\* route, lines 194-207: the companion event that follows a primary event
secondary_events(primary, hr) ==
    IF primary = <<>> THEN <<>>
    ELSE LET secondary_action == CONTINUOUS_SECONDARY(primary[1].gesture_id)
         IN  IF secondary_action # None /\ secondary_action # primary[1].action_id
             THEN << ActionEvent(secondary_action, primary[1].gesture_id, hr.label,
                                 1, TRUE, TRUE) >>
             ELSE <<>>

\* route, lines 187-207: the per-hand loop
RECURSIVE resolve_hands(_, _, _)
resolve_hands(db, tr, hands) ==
    IF hands = <<>> THEN [ db |-> db, events |-> <<>> ]
    ELSE LET one  == _resolve_hand(db, tr, Head(hands))
             rest == resolve_hands(one.db, tr, Tail(hands))
         IN  [ db |-> rest.db,
               events |-> one.events \o secondary_events(one.events, Head(hands))
                          \o rest.events ]

\* a no-hands frame that clears the tracker and forgets the debounce slots
after_no_hands_keeps_slots(res) == [ tr |-> clear(res.tr), db |-> res.db, events |-> res.events ]

\* route, lines 209-213: a frame without hands clears the tracker and the slots
after_no_hands(res) == [ tr |-> clear(res.tr), db |-> NewSlots, events |-> res.events ]

\* route, lines 187-215
hands_frame(db, tr, fr) ==
    LET r   == resolve_hands(db, tr, fr.hands)
        res == [ tr |-> tr, db |-> r.db, events |-> r.events ]
    IN  IF fr.hands = <<>> THEN after_no_hands(res) ELSE res

\* a combo frame that goes on to the per-hand loop instead of returning
combo_frame_falls_through(db, tr, fr) ==
    LET c == _resolve_combo(db, fr)
        h == hands_frame(c.db, tr, fr)
    IN  [ tr |-> h.tr, db |-> h.db, events |-> c.events \o h.events ]

\* route, lines 179-184: a combo is resolved alone and the call returns
combo_frame(db, tr, fr) ==
    LET c == _resolve_combo(db, fr)
    IN  [ tr |-> tr, db |-> c.db, events |-> c.events ]

\* GestureRouter.route at clock value t: tracker, slots and returned events
route(db, tr, fr, t) ==
    LET tr1 == update_hands(tr, fr.hands, t)
    IN  IF fr.combo_gesture # None THEN combo_frame(db, tr1, fr)
        ELSE hands_frame(db, tr1, fr)

\* ------------------------------------------------------------------------
\* The rolling landmark buffer of the router (gesture_router.py).  The
\* landmarks of a hand in a frame are written as the time the frame was
\* taken, so that a sequence of landmarks shows which frames it is made of.
\* ------------------------------------------------------------------------

\* __init__, lines 145-146: deque(maxlen=30)
LANDMARK_BUF_MAXLEN == 30

\* _get_dynamic_sequence, line 318: the shortest buffer that is used
MIN_SEQUENCE == 3

\* hr.landmarks of a hand seen in the frame taken at time t
Landmarks_at(t) == t

\* hr.landmarks where the frames are not told apart
Unmarked == 0

\* __init__, lines 144-147: one empty deque per hand
NewLandmarkBuf == [ h \in HandLabels |-> <<>> ]

\* no call of match_dynamic
NoSequences == [ h \in HandLabels |-> <<>> ]

\* deque.append with maxlen: the oldest entry leaves a full deque
deque_append(buf, x) ==
    IF Len(buf) >= LANDMARK_BUF_MAXLEN THEN Append(Tail(buf), x) ELSE Append(buf, x)

\* route, lines 170-171: the landmarks of every hand of the frame are pushed
push_landmarks(bufs, hands, lm) ==
    [ h \in HandLabels |->
        IF \E i \in DOMAIN hands : hands[i].label = h THEN deque_append(bufs[h], lm)
        ELSE bufs[h] ]

\* _get_dynamic_sequence, lines 311-320
_get_dynamic_sequence(bufs, label, lm) ==
    IF Len(bufs[label]) >= MIN_SEQUENCE THEN bufs[label] ELSE <<lm>>

\* route, lines 179-188 and _resolve_hand, lines 246-262: the sequences given
\* to match_dynamic during one call of route, <<>> for a hand without a call
dynamic_sequences(bufs, fr, lm) ==
    [ h \in HandLabels |->
        IF /\ fr.combo_gesture = None
           /\ \E i \in DOMAIN fr.hands :
                  fr.hands[i].label = h /\ fr.hands[i].dynamic_gesture # None
        THEN _get_dynamic_sequence(bufs, h, lm)
        ELSE <<>> ]

\* ------------------------------------------------------------------------
\* Recorder (recorder.py).  The recorder is a record of its fields; elapsed
\* stands for time.time() - self._state_start, counted in ticks and kept at
\* MaxElapsed once it has passed every duration the code compares it with.
\* ------------------------------------------------------------------------

COUNTDOWN_SECONDS == 3
TARGET_SAMPLES == 6
\* "dtw_threshold": 0.15, in hundredths
DEFAULT_DTW_THRESHOLD == 15

COUNTDOWN_TICKS == COUNTDOWN_SECONDS * TicksPerSecond
STATIC_CAPTURE_TICKS == 2 * TicksPerSecond
DYNAMIC_CAPTURE_TICKS == 1 * TicksPerSecond
BETWEEN_REST_TICKS == 2 * TicksPerSecond

MaxElapsed == COUNTDOWN_TICKS + MaxFrameGap
RecDts == 1..MaxFrameGap

RecordingStates == {"IDLE", "COUNTDOWN", "CAPTURING", "BETWEEN", "COMPLETE"}
GestureTypes == {"static", "dynamic"}

\* the gesture ids a session is started with: a template that exists and is
\* bound, and a new one
RecordedIds == {"custom_wave", "custom_new"}

\* Recorder.__init__
NewRecorder ==
    [ state |-> "IDLE", gesture_id |-> "", gesture_type |-> "static",
      preferred_hand |-> "Right", samples |-> <<>>, frame_buffer |-> <<>>,
      countdown_val |-> COUNTDOWN_SECONDS, elapsed |-> 0 ]

\* The landmarks of a camera frame, reduced to two coordinates that tell
\* when the frame was taken: the number of sessions started and the number of
\* the sample being collected.
Landmarks(session, round) == <<session, round>>

\* a template recorded before the program started
OldTemplate ==
    [ type |-> "static", hand |-> "right", enabled |-> TRUE,
      num_samples |-> TARGET_SAMPLES, dtw_threshold |-> DEFAULT_DTW_THRESHOLD,
      samples |-> [ i \in 1..TARGET_SAMPLES |-> [ landmarks |-> Landmarks(0, i) ] ] ]

\* ConfigManager._config when the program starts: custom_gestures maps an
\* id to Nil (no such key) or to its template, bindings maps an id to None
\* (no such key) or to the bound action
InitialConfig ==
    [ custom_gestures |->
          [ g \in RecordedIds |-> IF g \in CustomGestures THEN Some(OldTemplate) ELSE Nil ],
      bindings |->
          [ g \in RecordedIds |-> IF g \in GestureIds THEN bindings[g] ELSE None ] ]

\* ConfigManager.save_custom_gesture
save_custom_gesture(c, gesture_id, gesture_data) ==
    [ custom_gestures |-> [ c.custom_gestures EXCEPT ![gesture_id] = Some(gesture_data) ],
      bindings |-> IF c.bindings[gesture_id] = None
                   THEN [ c.bindings EXCEPT ![gesture_id] = "none" ]
                   ELSE c.bindings ]

\* RecordingEvent; countdown is Nil or Some(3), Some(2), Some(1)
RecordingEvent(event, state, gesture_id, samples_done, countdown) ==
    [ event |-> event, state |-> state, gesture_id |-> gesture_id,
      samples_done |-> samples_done, samples_total |-> TARGET_SAMPLES,
      countdown |-> countdown ]

\* What a call of a Recorder method leaves: the recorder, the configuration,
\* the returned event (Nil for None), the states _transition entered and the
\* number of calls of save_custom_gesture.
Outcome(rec, c, event, entered) ==
    [ rec |-> rec, cfg |-> c, event |-> event, log |-> entered, saves |-> 0 ]

\* a _transition that leaves the phase timer running
_transition_keeps_timer(rec, new_state) ==
    [ rec EXCEPT !.state = new_state, !.frame_buffer = <<>> ]

\* a _transition that leaves the frame buffer as it is
_transition_keeps_buffer(rec, new_state) ==
    [ rec EXCEPT !.state = new_state, !.elapsed = 0 ]

\* Recorder._transition
_transition(rec, new_state) ==
    [ rec EXCEPT !.state = new_state, !.elapsed = 0, !.frame_buffer = <<>> ]

\* Recorder.cancel
cancel(rec, c) ==
    Outcome(_transition(rec, "IDLE"), c,
            Some(RecordingEvent("cancelled", "IDLE", rec.gesture_id, Len(rec.samples), Nil)),
            <<"IDLE">>)

\* a start_session that keeps the samples captured so far
start_session_keeps_samples(rec, c, gesture_id, gesture_type, preferred_hand) ==
    LET before == IF rec.state # "IDLE" THEN cancel(rec, c)
                  ELSE Outcome(rec, c, Nil, <<>>)
        named  == [ before.rec EXCEPT !.gesture_id = gesture_id,
                                      !.gesture_type = gesture_type,
                                      !.preferred_hand = preferred_hand,
                                      !.frame_buffer = <<>> ]
    IN  Outcome(_transition(named, "COUNTDOWN"), c, Nil, before.log \o <<"COUNTDOWN">>)

\* Recorder.start_session; it returns nothing, the event of the cancel it
\* calls is dropped
start_session(rec, c, gesture_id, gesture_type, preferred_hand) ==
    LET before == IF rec.state # "IDLE" THEN cancel(rec, c)
                  ELSE Outcome(rec, c, Nil, <<>>)
        named  == [ before.rec EXCEPT !.gesture_id = gesture_id,
                                      !.gesture_type = gesture_type,
                                      !.preferred_hand = preferred_hand,
                                      !.samples = <<>>,
                                      !.frame_buffer = <<>> ]
    IN  Outcome(_transition(named, "COUNTDOWN"), c, Nil, before.log \o <<"COUNTDOWN">>)

\* Recorder.is_active
is_active(rec) == rec.state # "IDLE"

\* Recorder._finalise
_finalise(rec, c) ==
    LET gesture_data ==
            [ type |-> rec.gesture_type,
              hand |-> IF rec.preferred_hand = "Left" THEN "left" ELSE "right",
              enabled |-> TRUE,
              num_samples |-> Len(rec.samples),
              dtw_threshold |-> DEFAULT_DTW_THRESHOLD,
              samples |-> rec.samples ]
    IN  [ Outcome(_transition(_transition(rec, "COMPLETE"), "IDLE"),
                  save_custom_gesture(c, rec.gesture_id, gesture_data),
                  Some(RecordingEvent("complete", "COMPLETE", rec.gesture_id,
                                      Len(rec.samples), Nil)),
                  <<"COMPLETE", "IDLE">>)
          EXCEPT !.saves = 1 ]

\* a _save_sample that finalises only when the target has been passed
_save_sample_late(rec, c, sample) ==
    LET kept == [ rec EXCEPT !.samples = Append(rec.samples, sample), !.frame_buffer = <<>> ]
    IN  IF Len(kept.samples) > TARGET_SAMPLES THEN _finalise(kept, c)
        ELSE Outcome(_transition(kept, "BETWEEN"), c,
                     Some(RecordingEvent("sample_saved", "BETWEEN", kept.gesture_id,
                                         Len(kept.samples), Nil)),
                     <<"BETWEEN">>)

\* Recorder._save_sample
_save_sample(rec, c, sample) ==
    LET kept == [ rec EXCEPT !.samples = Append(rec.samples, sample), !.frame_buffer = <<>> ]
    IN  IF Len(kept.samples) >= TARGET_SAMPLES THEN _finalise(kept, c)
        ELSE Outcome(_transition(kept, "BETWEEN"), c,
                     Some(RecordingEvent("sample_saved", "BETWEEN", kept.gesture_id,
                                         Len(kept.samples), Nil)),
                     <<"BETWEEN">>)

\* the k-th smallest of the numbers of a sequence
KthSmallest(xs, k) ==
    CHOOSE v \in { xs[i] : i \in 1..Len(xs) } :
        /\ Cardinality({ i \in 1..Len(xs) : xs[i] < v }) < k
        /\ Cardinality({ i \in 1..Len(xs) : xs[i] <= v }) >= k

\* np.median of a non-empty sequence of numbers (whole part)
Median(xs) ==
    IF Len(xs) % 2 = 1 THEN KthSmallest(xs, (Len(xs) + 1) \div 2)
    ELSE (KthSmallest(xs, Len(xs) \div 2) + KthSmallest(xs, Len(xs) \div 2 + 1)) \div 2

\* np.median(np.stack(frame_buffer, axis=0), axis=0): the median of each coordinate
median_frame(frame_buffer) ==
    [ k \in 1..2 |-> Median([ i \in 1..Len(frame_buffer) |-> frame_buffer[i][k] ]) ]

\* DTWMatcher.prepare_static_sample and prepare_dynamic_sample (tolist)
prepare_static_sample(landmarks) == landmarks
prepare_dynamic_sample(frame_sequence) ==
    [ i \in 1..Len(frame_sequence) |-> frame_sequence[i] ]

\* a _capture_static that stores a sample from the first frame it is given
_capture_static_at_once(rec, c, landmarks, elapsed) ==
    LET buffered == [ rec EXCEPT !.frame_buffer = Append(rec.frame_buffer, landmarks) ]
    IN  _save_sample(buffered, c,
            [ landmarks |-> prepare_static_sample(median_frame(buffered.frame_buffer)) ])

\* Recorder._capture_static
_capture_static(rec, c, landmarks, elapsed) ==
    LET buffered == [ rec EXCEPT !.frame_buffer = Append(rec.frame_buffer, landmarks) ]
    IN  IF elapsed >= STATIC_CAPTURE_TICKS
        THEN _save_sample(buffered, c,
                 [ landmarks |-> prepare_static_sample(median_frame(buffered.frame_buffer)) ])
        ELSE Outcome(buffered, c, Nil, <<>>)

\* Recorder._capture_dynamic
_capture_dynamic(rec, c, landmarks, elapsed) ==
    LET buffered == [ rec EXCEPT !.frame_buffer = Append(rec.frame_buffer, landmarks) ]
    IN  IF elapsed >= DYNAMIC_CAPTURE_TICKS
        THEN _save_sample(buffered, c,
                 [ landmarks |-> prepare_dynamic_sample(buffered.frame_buffer) ])
        ELSE Outcome(buffered, c, Nil, <<>>)

\* update, lines 142-143: the preferred hand, else the first hand of the frame
picked_hand(rec, fr) ==
    IF HasHand(fr.hands, rec.preferred_hand) THEN rec.preferred_hand
    ELSE IF fr.hands # <<>> THEN fr.hands[1].label
    ELSE None

\* update, lines 148-171
update_countdown(rec, c) ==
    LET remaining == COUNTDOWN_SECONDS - (rec.elapsed \div TicksPerSecond)
    IN  IF remaining <= 0
        THEN Outcome(_transition(rec, "CAPTURING"), c,
                     Some(RecordingEvent("state_change", "CAPTURING", rec.gesture_id,
                                         Len(rec.samples), Nil)),
                     <<"CAPTURING">>)
        ELSE IF remaining # rec.countdown_val
        THEN Outcome([ rec EXCEPT !.countdown_val = remaining ], c,
                     Some(RecordingEvent("state_change", "COUNTDOWN", rec.gesture_id,
                                         Len(rec.samples), Some(remaining))),
                     <<>>)
        ELSE Outcome(rec, c, Nil, <<>>)

\* a capture that does not wait for a hand
update_capturing_blind(rec, c, hand, landmarks) ==
    IF rec.gesture_type = "static"
    THEN _capture_static(rec, c, landmarks, rec.elapsed)
    ELSE _capture_dynamic(rec, c, landmarks, rec.elapsed)

\* update, lines 174-185; landmarks are those of the picked hand
update_capturing(rec, c, hand, landmarks) ==
    IF hand = None THEN Outcome(rec, c, Nil, <<>>)
    ELSE IF rec.gesture_type = "static"
    THEN _capture_static(rec, c, landmarks, rec.elapsed)
    ELSE _capture_dynamic(rec, c, landmarks, rec.elapsed)

\* update, lines 188-201
update_between(rec, c) ==
    IF rec.elapsed >= BETWEEN_REST_TICKS
    THEN Outcome(_transition([ rec EXCEPT !.countdown_val = COUNTDOWN_SECONDS ], "COUNTDOWN"),
                 c,
                 Some(RecordingEvent("state_change", "COUNTDOWN", rec.gesture_id,
                                     Len(rec.samples), Some(COUNTDOWN_SECONDS))),
                 <<"COUNTDOWN">>)
    ELSE Outcome(rec, c, Nil, <<>>)

\* Recorder.update for a frame taken dt ticks after the previous call
recorder_update(rec, c, fr, landmarks, dt) ==
    LET timed == [ rec EXCEPT !.elapsed = Min(rec.elapsed + dt, MaxElapsed) ]
    IN  IF rec.state = "IDLE" THEN Outcome(rec, c, Nil, <<>>)
        ELSE IF rec.state = "COUNTDOWN" THEN update_countdown(timed, c)
        ELSE IF rec.state = "CAPTURING"
        THEN update_capturing(timed, c, picked_hand(rec, fr), landmarks)
        ELSE IF rec.state = "BETWEEN" THEN update_between(timed, c)
        ELSE Outcome(timed, c, Nil, <<>>)

\* ------------------------------------------------------------------------
\* GestureDetector (gesture_detector_fixed.py, the classifier main.py uses).
\* Distances and coordinates are in thousandths of the frame size, angles in
\* half degrees.  The landmarks of a hand are reduced to what the classifier
\* computes from them: the set of extended fingers, the index-middle tip
\* separation, the thumb-index pinch distance, the palm-facing test, the
\* pointing angle of the index finger, and the positions of the middle
\* fingertip and of the wrist.
\* ------------------------------------------------------------------------

gesture_buffer_size == 5
dynamic_buffer_size == 5
position_history_size == 25
wrist_history_size == 6

Fingers == {"thumb", "index", "middle", "ring", "pinky"}

HandLandmarks(label, fingers, sep, pinch, palm_facing, angle, tip, wrist) ==
    [ label |-> label, fingers |-> fingers, sep |-> sep, pinch |-> pinch,
      palm_facing |-> palm_facing, angle |-> angle, tip |-> tip, wrist |-> wrist ]

\* the exception a call ends with
AttributeError == "AttributeError"

\* GestureDetector._is_finger_extended
_is_finger_extended(lm, finger) == finger \in lm.fingers

\* GestureDetector._count_extended_fingers
_count_extended_fingers(lm) == Cardinality({ f \in Fingers : _is_finger_extended(lm, f) })

\* _detect_static, lines 311-324: the sector of the pointing angle, None when
\* the angle is in none of the four
pointing_label(angle, palm_facing) ==
    LET a == IF palm_facing THEN angle % 720 ELSE ((angle % 720) + 360) % 720
    IN  IF a >= 720 - 45 \/ a < 45 THEN "RIGHT"
        ELSE IF 45 <= a /\ a < 180 + 45 THEN "UP"
        ELSE IF 180 + 45 <= a /\ a < 360 + 45 THEN "LEFT"
        ELSE IF 360 + 45 <= a /\ a < 540 + 45 THEN "DOWN"
        ELSE None

\* GestureDetector._detect_custom: its first statement reads self._cfg, an
\* attribute the class never sets (__init__ sets self.cfg)
_detect_custom(lm) == AttributeError

\* a decision list that tests the open palm before the OK sign
_detect_static_palm_first(lm) ==
    LET t == _is_finger_extended(lm, "thumb")
        i == _is_finger_extended(lm, "index")
        m == _is_finger_extended(lm, "middle")
        r == _is_finger_extended(lm, "ring")
        p == _is_finger_extended(lm, "pinky")
        n == _count_extended_fingers(lm)
    IN  IF n = 0 THEN "FIST"
        ELSE IF t /\ n = 1 THEN "THUMBS_UP"
        ELSE IF i /\ ~m /\ ~r /\ ~p /\ ~t THEN "INDEX_ONLY"
        ELSE IF i /\ m /\ ~r /\ ~p /\ 50 < lm.sep /\ lm.sep < 150 THEN "PEACE"
        ELSE IF n = 5 THEN "PALM"
        ELSE IF lm.pinch < 40 /\ m /\ r /\ p THEN "OK"
        ELSE IF i /\ pointing_label(lm.angle, lm.palm_facing) # None
        THEN pointing_label(lm.angle, lm.palm_facing)
        ELSE _detect_custom(lm)

\* GestureDetector._detect_static: the raw label, or the exception
_detect_static(lm) ==
    LET t == _is_finger_extended(lm, "thumb")
        i == _is_finger_extended(lm, "index")
        m == _is_finger_extended(lm, "middle")
        r == _is_finger_extended(lm, "ring")
        p == _is_finger_extended(lm, "pinky")
        n == _count_extended_fingers(lm)
    IN  IF n = 0 THEN "FIST"
        ELSE IF t /\ n = 1 THEN "THUMBS_UP"
        ELSE IF i /\ ~m /\ ~r /\ ~p /\ ~t THEN "INDEX_ONLY"
        ELSE IF i /\ m /\ ~r /\ ~p /\ 50 < lm.sep /\ lm.sep < 150 THEN "PEACE"
        ELSE IF lm.pinch < 40 /\ m /\ r /\ p THEN "OK"
        ELSE IF n = 5 THEN "PALM"
        ELSE IF i /\ pointing_label(lm.angle, lm.palm_facing) # None
        THEN pointing_label(lm.angle, lm.palm_facing)
        ELSE _detect_custom(lm)

\* deque(maxlen=n).append
push(buf, x, maxlen) ==
    IF Len(buf) >= maxlen THEN Append(Tail(buf), x) ELSE Append(buf, x)

Count(buf, x) == Cardinality({ k \in 1..Len(buf) : buf[k] = x })
FirstAt(buf, x) == CHOOSE k \in 1..Len(buf) : buf[k] = x /\ \A j \in 1..(k - 1) : buf[j] # x

\* Counter(buf).most_common(1)[0][0] of a non-empty buffer: the highest
\* count, and among equal counts the label that entered the buffer first
most_common(buf) ==
    CHOOSE x \in { buf[k] : k \in 1..Len(buf) } :
        \A y \in { buf[k] : k \in 1..Len(buf) } :
            \/ Count(buf, x) > Count(buf, y)
            \/ Count(buf, x) = Count(buf, y) /\ FirstAt(buf, x) <= FirstAt(buf, y)

\* a _smooth_gesture that lets an unresolved label into the window
_smooth_gesture_keeps_unknown(gesture, buf) ==
    IF gesture = None THEN [ label |-> None, buf |-> buf ]
    ELSE LET b == push(buf, gesture, gesture_buffer_size)
         IN  [ label |-> IF gesture = "UNKNOWN" THEN None
                         ELSE IF Len(b) >= 3 THEN most_common(b) ELSE gesture,
               buf |-> b ]

\* GestureDetector._smooth_gesture: the visible label and the window afterwards
_smooth_gesture(gesture, buf) ==
    IF gesture = None \/ gesture = "UNKNOWN" THEN [ label |-> None, buf |-> buf ]
    ELSE LET b == push(buf, gesture, gesture_buffer_size)
         IN  [ label |-> IF Len(b) >= 3 THEN most_common(b) ELSE gesture, buf |-> b ]

Abs(x) == IF x >= 0 THEN x ELSE -x
Square(x) == x * x

\* math.sqrt of a whole number, whole part
Sqrt(n) == CHOOSE s \in 0..n : s * s <= n /\ n < (s + 1) * (s + 1)

\* the length of the step from position a to position b
StepLength(a, b) ==
    IF a[1] = b[1] THEN Abs(b[2] - a[2])
    ELSE IF a[2] = b[2] THEN Abs(b[1] - a[1])
    ELSE Sqrt(Square(b[1] - a[1]) + Square(b[2] - a[2]))

RECURSIVE PathLength(_)
PathLength(positions) ==
    IF Len(positions) < 2 THEN 0
    ELSE StepLength(positions[1], positions[2]) + PathLength(Tail(positions))

RECURSIVE SumOf(_)
SumOf(xs) == IF xs = <<>> THEN 0 ELSE Head(xs) + SumOf(Tail(xs))

\* _detect_dynamic, lines 380-384: the sector of math.atan2(dy, dx)
swipe_label(dx, dy) ==
    IF dx > 0 /\ -dx <= dy /\ dy < dx THEN "SWIPE_RIGHT"
    ELSE IF dy > 0 /\ -dy < dx /\ dx <= dy THEN "SWIPE_DOWN"
    ELSE IF dx < 0 /\ Abs(dy) <= -dx THEN "SWIPE_LEFT"
    ELSE IF dy < 0 /\ dy <= dx /\ dx < -dy THEN "SWIPE_UP"
    ELSE None

\* _detect_dynamic, lines 387-396: the oscillation of the x coordinates
is_wave(positions) ==
    LET n       == Len(positions)
        xs      == [ k \in 1..n |-> positions[k][1] ]
        changes == Cardinality({ k \in 2..(n - 1) :
                       \/ xs[k] > xs[k - 1] /\ xs[k] > xs[k + 1]
                       \/ xs[k] < xs[k - 1] /\ xs[k] < xs[k + 1] })
    IN  /\ n >= 18
        /\ changes >= 4
        /\ n * SumOf([ k \in 1..n |-> Square(xs[k]) ]) - Square(SumOf(xs)) > 4000 * n * n

\* GestureDetector._detect_dynamic
_detect_dynamic(positions) ==
    IF Len(positions) < 15 THEN None
    ELSE LET dx   == positions[Len(positions)][1] - positions[1][1]
             dy   == positions[Len(positions)][2] - positions[1][2]
             path == PathLength(positions)
         IN  IF /\ Square(dx) + Square(dy) > Square(120)
                /\ 10000 * (Square(dx) + Square(dy)) > 4225 * Square(path)
                /\ swipe_label(dx, dy) # None
             THEN swipe_label(dx, dy)
             ELSE IF is_wave(positions) THEN "WAVE"
             ELSE None

\* GestureDetector._compute_velocity: the wrist history afterwards and is_stationary
_compute_velocity(hist, wrist) ==
    LET h == push(hist, wrist, wrist_history_size)
    IN  [ hist |-> h,
          is_stationary |->
              IF Len(h) < 2 THEN TRUE
              ELSE Square(h[Len(h)][1] - h[Len(h) - 1][1])
                   + Square(h[Len(h)][2] - h[Len(h) - 1][2]) < Square(8) ]

\* GestureDetector.__init__: the four rolling buffers of each hand
NewDetector ==
    [ static_buf |-> [h \in HandLabels |-> <<>>],
      dynamic_buf |-> [h \in HandLabels |-> <<>>],
      pos_history |-> [h \in HandLabels |-> <<>>],
      wrist_history |-> [h \in HandLabels |-> <<>>] ]

\* _process_hand, lines 221-232: the motion window afterwards and the motion label
smooth_dynamic(dynamic_buf, raw_dyn, history_length) ==
    IF raw_dyn # None
    THEN LET b == push(dynamic_buf, raw_dyn, dynamic_buffer_size)
         IN  [ buf |-> b, label |-> IF Len(b) >= 2 THEN most_common(b) ELSE None ]
    ELSE [ buf |-> IF history_length >= 20 THEN <<>> ELSE dynamic_buf, label |-> None ]

\* GestureDetector._process_hand: the detector afterwards and the HandResult,
\* or the exception of _detect_static, raised before any buffer is touched
_process_hand(det, lm) ==
    LET label      == lm.label
        static_raw == _detect_static(lm)
        vel        == _compute_velocity(det.wrist_history[label], lm.wrist)
        smoothed   == _smooth_gesture(static_raw, det.static_buf[label])
        positions  == push(det.pos_history[label], lm.tip, position_history_size)
        dyn        == smooth_dynamic(det.dynamic_buf[label], _detect_dynamic(positions),
                                     Len(positions))
    IN  IF static_raw = AttributeError
        THEN [ det |-> det, raised |-> AttributeError, hand |-> None ]
        ELSE [ det |-> [ static_buf |-> [det.static_buf EXCEPT ![label] = smoothed.buf],
                         dynamic_buf |-> [det.dynamic_buf EXCEPT ![label] = dyn.buf],
                         pos_history |-> [det.pos_history EXCEPT ![label] = positions],
                         wrist_history |-> [det.wrist_history EXCEPT ![label] = vel.hist] ],
               raised |-> None,
               hand |-> HandResult(label, smoothed.label, dyn.label, None,
                                   vel.is_stationary, _count_extended_fingers(lm)) ]

\* process_frame, lines 168-180: the loop over the hands the tracker reports;
\* it ends at the first exception
RECURSIVE process_hands(_, _, _)
process_hands(det, results, done) ==
    IF results = <<>> THEN [ det |-> det, raised |-> None, hands |-> done ]
    ELSE LET one == _process_hand(det, Head(results))
         IN  IF one.raised # None
             THEN [ det |-> one.det, raised |-> one.raised, hands |-> done ]
             ELSE process_hands(one.det, Tail(results), Append(done, one.hand))

\* process_frame, lines 183-189: buffers are cleared when the tracker reports
\* no hand at all
clear_buffers(det, results) == IF results = <<>> THEN NewDetector ELSE det

\* GestureDetector.process_frame for the hands the tracker reports: the
\* detector afterwards, and the FrameResult or the exception
process_frame(det, results) ==
    LET p == process_hands(det, results, <<>>)
    IN  IF p.raised # None
        THEN [ det |-> p.det, raised |-> p.raised, frame_result |-> None ]
        ELSE [ det |-> clear_buffers(p.det, results), raised |-> None,
               frame_result |-> FrameResult(p.hands) ]

\* ------------------------------------------------------------------------
\* DTWMatcher (dtw_matcher.py, the matcher main.py uses).  For the matcher
\* the two coordinates of a landmark frame are the size of the hand in the
\* picture and its pose, on a line of poses scaled in hundredths, so that
\* the distance of two normalised frames is the difference of their poses.
\* A score is a fraction <<numerator, denominator>>.
\* ------------------------------------------------------------------------

\* DTWMatcher._flatten: L2 normalisation removes the size and keeps the pose
_flatten(landmarks) == landmarks[2]

\* np.linalg.norm(a - b) of two normalised frames
norm_of_difference(a, b) == Abs(a - b)

\* DTWMatcher._euclidean
_euclidean(a, b) == <<norm_of_difference(a, b), 1>>

\* a cost matrix whose cells are reached from the left and from below only
RECURSIVE dtw_cost_no_diagonal(_, _, _, _)
dtw_cost_no_diagonal(seq_a, seq_b, i, j) ==
    LET local == norm_of_difference(seq_a[i], seq_b[j])
    IN  IF i = 1 /\ j = 1 THEN local
        ELSE IF j = 1 THEN dtw_cost_no_diagonal(seq_a, seq_b, i - 1, 1) + local
        ELSE IF i = 1 THEN dtw_cost_no_diagonal(seq_a, seq_b, 1, j - 1) + local
        ELSE local + Min(dtw_cost_no_diagonal(seq_a, seq_b, i - 1, j),
                         dtw_cost_no_diagonal(seq_a, seq_b, i, j - 1))

\* DTWMatcher._dtw: the entry cost[i, j] of the cost matrix (1-based)
RECURSIVE dtw_cost(_, _, _, _)
dtw_cost(seq_a, seq_b, i, j) ==
    LET local == norm_of_difference(seq_a[i], seq_b[j])
    IN  IF i = 1 /\ j = 1 THEN local
        ELSE IF j = 1 THEN dtw_cost(seq_a, seq_b, i - 1, 1) + local
        ELSE IF i = 1 THEN dtw_cost(seq_a, seq_b, 1, j - 1) + local
        ELSE local + Min(dtw_cost(seq_a, seq_b, i - 1, j),
                         Min(dtw_cost(seq_a, seq_b, i, j - 1),
                             dtw_cost(seq_a, seq_b, i - 1, j - 1)))

\* DTWMatcher._dtw: the cost of the best alignment divided by n + m
_dtw(seq_a, seq_b) ==
    <<dtw_cost(seq_a, seq_b, Len(seq_a), Len(seq_b)), Len(seq_a) + Len(seq_b)>>

\* comparison and sum of fractions with positive denominators
Less(a, b) == a[1] * b[2] < b[1] * a[2]
LessOrEqual(a, b) == a[1] * b[2] <= b[1] * a[2]
Plus(a, b) == <<a[1] * b[2] + b[1] * a[2], a[2] * b[2]>>

\* A landmark frame has two components in the model (the size of the hand
\* and its pose); a stored frame of any other length stands for stored
\* landmarks of another dimensionality than the live ones.
FrameShape == 2

\* _match_against_customs, lines 97-103: the computation of the score raises
\* (a - b of arrays whose shapes differ, in _euclidean or in _dtw)
scoring_raises(stored_lm, gesture_type) ==
    IF gesture_type = "static" THEN Len(stored_lm) # FrameShape
    ELSE \E k \in 1..Len(stored_lm) : Len(stored_lm[k]) # FrameShape

\* scores that end at the first sample whose computation raises
RECURSIVE sample_scores_gives_up(_, _, _)
sample_scores_gives_up(samples, live_data, gesture_type) ==
    IF samples = <<>> THEN <<>>
    ELSE LET stored_lm == Head(samples).landmarks
             rest      == sample_scores_gives_up(Tail(samples), live_data, gesture_type)
         IN  IF stored_lm = <<>> THEN rest
             ELSE IF scoring_raises(stored_lm, gesture_type) THEN <<>>
             ELSE IF gesture_type = "static"
             THEN <<_euclidean(live_data, _flatten(stored_lm))>> \o rest
             ELSE <<_dtw(live_data, [ k \in 1..Len(stored_lm) |-> _flatten(stored_lm[k]) ])>>
                  \o rest

\* _match_against_customs, lines 91-107: the scores of the samples of one
\* template; a sample without landmarks, or with empty ones, or whose
\* score raises, is passed over
RECURSIVE sample_scores(_, _, _)
sample_scores(samples, live_data, gesture_type) ==
    IF samples = <<>> THEN <<>>
    ELSE LET stored_lm == Head(samples).landmarks
             rest      == sample_scores(Tail(samples), live_data, gesture_type)
         IN  IF stored_lm = <<>> THEN rest
             ELSE IF scoring_raises(stored_lm, gesture_type) THEN rest
             ELSE IF gesture_type = "static"
             THEN <<_euclidean(live_data, _flatten(stored_lm))>> \o rest
             ELSE <<_dtw(live_data, [ k \in 1..Len(stored_lm) |-> _flatten(stored_lm[k]) ])>>
                  \o rest

\* np.mean of a non-empty list of scores
RECURSIVE sum_scores(_)
sum_scores(scores) ==
    IF Len(scores) = 1 THEN scores[1] ELSE Plus(scores[1], sum_scores(Tail(scores)))
mean(scores) == <<sum_scores(scores)[1], sum_scores(scores)[2] * Len(scores)>>

\* the order in which the dict of custom gestures is walked
StoreOrder == <<"custom_wave", "custom_new">>

\* a matcher that accepts a mean equal to the threshold
RECURSIVE _match_against_customs_inclusive(_, _, _, _, _, _)
_match_against_customs_inclusive(c, live_data, gesture_type, k, best_id, best_score) ==
    IF k > Len(StoreOrder) THEN best_id
    ELSE LET gid     == StoreOrder[k]
             entry   == c.custom_gestures[gid]
             gesture == entry[1]
             scores  == sample_scores(gesture.samples, live_data, gesture_type)
             skip    == _match_against_customs_inclusive(c, live_data, gesture_type, k + 1,
                                                         best_id, best_score)
         IN  IF entry = Nil THEN skip
             ELSE IF ~gesture.enabled \/ gesture.type # gesture_type THEN skip
             ELSE IF gesture.samples = <<>> \/ scores = <<>> THEN skip
             ELSE IF /\ LessOrEqual(mean(scores), <<gesture.dtw_threshold, 1>>)
                     /\ (best_score = Nil \/ Less(mean(scores), best_score[1]))
             THEN _match_against_customs_inclusive(c, live_data, gesture_type, k + 1,
                                                   gid, Some(mean(scores)))
             ELSE skip

\* a matcher that keeps the last template below its threshold, whatever
\* the best score so far
RECURSIVE _match_against_customs_last(_, _, _, _, _, _)
_match_against_customs_last(c, live_data, gesture_type, k, best_id, best_score) ==
    IF k > Len(StoreOrder) THEN best_id
    ELSE LET gid     == StoreOrder[k]
             entry   == c.custom_gestures[gid]
             gesture == entry[1]
             scores  == sample_scores(gesture.samples, live_data, gesture_type)
             skip    == _match_against_customs_last(c, live_data, gesture_type, k + 1,
                                                    best_id, best_score)
         IN  IF entry = Nil THEN skip
             ELSE IF ~gesture.enabled \/ gesture.type # gesture_type THEN skip
             ELSE IF gesture.samples = <<>> \/ scores = <<>> THEN skip
             ELSE IF Less(mean(scores), <<gesture.dtw_threshold, 1>>)
             THEN _match_against_customs_last(c, live_data, gesture_type, k + 1,
                                              gid, Some(mean(scores)))
             ELSE skip

\* DTWMatcher._match_against_customs from the k-th entry of the store on,
\* with the best id and the best score so far (Nil: float("inf"))
RECURSIVE _match_against_customs(_, _, _, _, _, _)
_match_against_customs(c, live_data, gesture_type, k, best_id, best_score) ==
    IF k > Len(StoreOrder) THEN best_id
    ELSE LET gid     == StoreOrder[k]
             entry   == c.custom_gestures[gid]
             gesture == entry[1]
             scores  == sample_scores(gesture.samples, live_data, gesture_type)
             skip    == _match_against_customs(c, live_data, gesture_type, k + 1,
                                               best_id, best_score)
         IN  IF entry = Nil THEN skip
             ELSE IF ~gesture.enabled \/ gesture.type # gesture_type THEN skip
             ELSE IF gesture.samples = <<>> \/ scores = <<>> THEN skip
             ELSE IF /\ Less(mean(scores), <<gesture.dtw_threshold, 1>>)
                     /\ (best_score = Nil \/ Less(mean(scores), best_score[1]))
             THEN _match_against_customs(c, live_data, gesture_type, k + 1,
                                         gid, Some(mean(scores)))
             ELSE skip

\* DTWMatcher.match_static
match_static(c, live_landmarks) ==
    _match_against_customs(c, _flatten(live_landmarks), "static", 1, None, Nil)

\* DTWMatcher.match_dynamic
match_dynamic(c, live_sequence) ==
    IF Len(live_sequence) < 3 THEN None
    ELSE _match_against_customs(c, [ k \in 1..Len(live_sequence) |-> _flatten(live_sequence[k]) ],
                                "dynamic", 1, None, Nil)

\* ------------------------------------------------------------------------
\* The state machine: one step is one call of GestureRouter.route from the
\* frame loop (main.py, line 137).
\* ------------------------------------------------------------------------

NoGap == [ age |-> 2, lost |-> [s \in Slots |-> None], timers |-> [h \in HandLabels |-> Nil] ]

\* the gesture id resolved for a hand in a frame (None: no such hand, no
\* gesture, or a combo frame, in which no hand is resolved)
ResolvedIn(fr, label) ==
    IF fr.combo_gesture # None \/ ~HasHand(fr.hands, label) THEN None
    ELSE resolved_gesture(HandOf(fr.hands, label))

ActionIn(fr, label) ==
    IF fr.combo_gesture # None \/ ~HasHand(fr.hands, label) THEN None
    ELSE resolved_action(HandOf(fr.hands, label))

IsSecondary(e) == e.action_id = CONTINUOUS_SECONDARY(e.gesture_id)
IsPrimaryOf(e, label) == e.hand = label /\ ~IsSecondary(e)

PrimaryCount(evs, label) ==
    Cardinality({ i \in 1..Len(evs) : IsPrimaryOf(evs[i], label) })

\* the frame thread is not inside ConfigManager.custom_gestures.  Inside, it
\* holds the dict object get() returned (object; contents, once a reload
\* has replaced that object in the store), the size the dict had when the
\* iterator was made (used), the number of items the iterator has yielded
\* (position) and the items copied so far (items); raised is the exception
\* the last matcher call ended with
NoLookup ==
    [ pc |-> "idle", live |-> <<>>, object |-> 0, contents |-> Nil, used |-> 0,
      position |-> 0, items |-> <<>>, raised |-> None ]

\* no single function is being called
\* The frame thread outside Recorder.update (pc "idle"), or inside it, past
\* the test of line 174 and the reading of the clock in line 178, holding the
\* landmarks of the picked hand and the elapsed time it computed.
NoUpdate == [ pc |-> "idle", landmarks |-> <<>>, elapsed |-> 0 ]

\* No recording command has been handled yet; samples and saves are the
\* number of stored samples and of persisted templates when the command
\* returned.
NoCommand == [ type |-> None, samples |-> 0, saves |-> 0 ]

NoCall == [ function |-> None, arguments |-> <<>>, value |-> Nil ]

\* ------------------------------------------------------------------------
\* HTTPServer (http_server.py): the stream of server-sent events.  One
\* request of /events is one client, served by a thread of its own.
\* ------------------------------------------------------------------------

\* __init__, line 58: queue.Queue(maxsize=100)
EVENT_QUEUE_MAXSIZE == 100

\* the calls of broadcast in a run
MaxBroadcasts == 3

\* the requests of /events in a run
Clients == {"client_1", "client_2"}

\* events, lines 162-170: the first message of every stream
CONFIG_SNAPSHOT == [ type |-> "CONFIG_SNAPSHOT", event |-> 0 ]

\* broadcast, line 116: {"type": "ACTION", **event.to_dict()}
action_message(event) == [ type |-> "ACTION", event |-> event ]

\* _send_event, lines 145-150: put_nowait, the message is dropped when the
\* queue is full
_send_event(q, message) ==
    IF Len(q) >= EVENT_QUEUE_MAXSIZE THEN q ELSE Append(q, message)

\* every object as its constructor leaves it
Constructed ==
    /\ now = 0
    /\ hold_start = NewTracker.hold_start
    /\ multiplier = NewTracker.multiplier
    /\ last_gesture = NewSlots.last_gesture
    /\ last_action = NewSlots.last_action
    /\ frame = FrameResult(<<>>)
    /\ events = <<>>
    /\ run = [h \in HandLabels |-> 0]
    /\ fired = [h \in HandLabels |-> 0]
    /\ combo_run = 0
    /\ gap = NoGap
    /\ landmark_buf = NewLandmarkBuf
    /\ dtw_input = NoSequences
    /\ hands_lost = 0
    /\ recorder = NewRecorder
    /\ cfg = InitialConfig
    /\ returned = Nil
    /\ log = <<>>
    /\ last_call = <<"__init__">>
    /\ sessions = 0
    /\ saves = 0
    /\ completes = 0
    /\ dropped = FALSE
    /\ notified = COUNTDOWN_SECONDS
    /\ detector = NewDetector
    /\ tracked = <<>>
    /\ detected = FrameResult(<<>>)
    /\ raised = None
    /\ running = TRUE
    /\ streak = [h \in HandLabels |-> 0]
    /\ live = [ gesture_type |-> None, data |-> <<>> ]
    /\ matched = None
    /\ fresh = TRUE
    /\ lookup = NoLookup
    /\ store_object = 0
    /\ frame_thread = NoUpdate
    /\ command = NoCommand
    /\ earlier = NewDetector
    /\ serving = FALSE
    /\ event_queue = <<>>
    /\ clients = {}
    /\ received = [ c \in Clients |-> <<>> ]
    /\ sent = <<>>

Init == Constructed /\ applied = NoCall

\* the run length of each hand's resolved gesture after frame fr
NewRun(fr) ==
    [ h \in HandLabels |->
        IF ResolvedIn(fr, h) = None THEN 0
        ELSE IF ResolvedIn(fr, h) = ResolvedIn(frame, h) THEN run[h] + 1
        ELSE 1 ]

\* the call of route on a frame whose hands have the landmarks lm: what it
\* does to the router
RouteFrame(fr, dt, lm) ==
    /\ now' = now + dt
    /\ \E r \in { route([ last_gesture |-> last_gesture, last_action |-> last_action ],
                        [ hold_start |-> hold_start, multiplier |-> multiplier ],
                        fr, now + dt) } :
       \E newrun \in { NewRun(fr) } :
           /\ hold_start' = r.tr.hold_start
           /\ multiplier' = r.tr.multiplier
           /\ last_gesture' = r.db.last_gesture
           /\ last_action' = r.db.last_action
           /\ events' = r.events
           /\ run' = newrun
           /\ fired' = [ h \in HandLabels |->
                           IF newrun[h] = 0 THEN 0
                           ELSE (IF newrun[h] = 1 THEN 0 ELSE fired[h])
                                + PrimaryCount(r.events, h) ]
    /\ frame' = fr
    /\ combo_run' = IF fr.combo_gesture = None THEN 0
                    ELSE IF fr.combo_gesture = frame.combo_gesture THEN combo_run + 1
                    ELSE 1
    /\ gap' = IF fr.hands = <<>>
              THEN [ age |-> 0, lost |-> last_gesture, timers |-> hold_start ]
              ELSE IF gap.age = 0 THEN [ gap EXCEPT !.age = 1 ]
              ELSE NoGap
    /\ landmark_buf' = push_landmarks(landmark_buf, fr.hands, lm)
    /\ dtw_input' = dynamic_sequences(push_landmarks(landmark_buf, fr.hands, lm), fr, lm)
    /\ hands_lost' = IF fr.hands = <<>> THEN lm ELSE hands_lost

\* the call of route on a frame whose landmarks are not told apart
RouteCall(fr, dt) == RouteFrame(fr, dt, Unmarked)

Route(fr, dt) ==
    /\ RouteCall(fr, dt)
    /\ UNCHANGED <<race_vars, trace_vars, sse_vars, recorder_vars, detector_vars, matcher_vars, function_vars, store_vars>>

\* Frames for the debounce rules: hands that move, showing gestures with
\* every kind of binding (one-shot, repeatable, "none", with a companion,
\* overridden by a bound template, matched by an unbound template, a motion
\* over a pose); the right hand shows the poses the combos need.  The
\* tracker reports the left hand first, or the right hand first when the two
\* hands form a combo.
DebounceLeft ==
    HandResults("Left", {None, "FIST", "PALM", "PEACE", "POINTING_UP"}, {None}, {None},
                {FALSE}, {2})
    \cup HandResults("Left", {"PALM"}, {"SWIPE_LEFT"}, {None}, {FALSE}, {2})
    \cup HandResults("Left", {"FIST"}, {None}, {"custom_wave", "custom_idle"}, {FALSE}, {2})
DebounceRight ==
    HandResults("Right", {"FIST", "PALM", "PEACE"}, {None}, {None}, {FALSE}, {2})
DebounceFrames ==
    { fr \in FramesOver(DebounceLeft, DebounceRight) :
        Len(fr.hands) = 2 /\ fr.hands[1].label = "Right" => fr.combo_gesture # None }

NextDebounce == now + 1 <= MaxTime /\ \E fr \in DebounceFrames : Route(fr, 1)
SpecDebounce == Init /\ [][NextDebounce]_vars

\* Frames for the multiplier: the left hand holds still or moves and the
\* right hand swipes or shows another bound gesture, each with every finger
\* count; the same with the hands exchanged for some finger counts; either
\* hand may be missing.  PEACE on both hands is the combo DOUBLE_PEACE.
Holding(label, counts) ==
    HandResults(label, {None}, {None}, {None}, {TRUE}, counts)
    \cup HandResults(label, {None}, {None}, {None}, {FALSE}, {2})
    \cup HandResults(label, {"PEACE"}, {None}, {None}, {TRUE}, {2})
Swiping(label, counts) ==
    HandResults(label, {None}, {"SWIPE_LEFT"}, {None}, {FALSE}, counts)
    \cup HandResults(label, {None}, {"SWIPE_LEFT"}, {"custom_wave"}, {FALSE}, {2})
    \cup HandResults(label, {"PEACE"}, {None}, {None}, {FALSE}, {2})
OrderedFrames(L, R) ==
    { FrameResult(hs) :
        hs \in {<<>>} \cup { <<l>> : l \in L } \cup { <<r>> : r \in R }
               \cup { <<l, r>> : l \in L, r \in R } }
MultiplierFrames ==
    OrderedFrames(Holding("Left", 0..MaxFingerCount), Swiping("Right", 0..MaxFingerCount))
    \cup OrderedFrames(Swiping("Left", {0, 3}), Holding("Right", {0, 4}))

\* HTTPServer.start: the server thread is started
StartServer ==
    /\ ~serving
    /\ serving' = TRUE
    /\ UNCHANGED <<event_queue, clients, received, sent>>
    /\ UNCHANGED <<router_vars, recorder_vars, detector_vars, matcher_vars, function_vars,
                   store_vars, race_vars, trace_vars>>

\* HTTPServer.stop
StopServer ==
    /\ serving
    /\ serving' = FALSE
    /\ UNCHANGED <<event_queue, clients, received, sent>>
    /\ UNCHANGED <<router_vars, recorder_vars, detector_vars, matcher_vars, function_vars,
                   store_vars, race_vars, trace_vars>>

\* HTTPServer.broadcast, called by the frame thread for the next event
Broadcast ==
    /\ Len(sent) < MaxBroadcasts
    /\ event_queue' = _send_event(event_queue, action_message(Len(sent) + 1))
    /\ sent' = Append(sent, [ event |-> Len(sent) + 1, clients |-> clients ])
    /\ UNCHANGED <<serving, clients, received>>
    /\ UNCHANGED <<router_vars, recorder_vars, detector_vars, matcher_vars, function_vars,
                   store_vars, race_vars, trace_vars>>

\* events / generate, lines 161-175: a new request of /events gets the
\* configuration and becomes a client
Connect(c) ==
    /\ serving
    /\ c \notin clients
    /\ received[c] = <<>>
    /\ received' = [ received EXCEPT ![c] = Append(@, CONFIG_SNAPSHOT) ]
    /\ clients' = clients \cup {c}
    /\ UNCHANGED <<serving, event_queue, sent>>
    /\ UNCHANGED <<router_vars, recorder_vars, detector_vars, matcher_vars, function_vars,
                   store_vars, race_vars, trace_vars>>

\* generate, lines 177-185: one turn of a client's loop.  It takes the oldest
\* message off the queue and yields it; on an empty queue it yields a
\* keepalive comment after the timeout; when the server has stopped the loop
\* ends and the client is discarded (lines 188-190).
Poll(c) ==
    /\ c \in clients
    /\ IF ~serving
       THEN /\ clients' = clients \ {c}
            /\ UNCHANGED <<event_queue, received>>
       ELSE IF event_queue = <<>>
       THEN UNCHANGED <<event_queue, clients, received>>
       ELSE /\ event_queue' = Tail(event_queue)
            /\ received' = [ received EXCEPT ![c] = Append(@, Head(event_queue)) ]
            /\ UNCHANGED clients
    /\ UNCHANGED <<serving, sent>>
    /\ UNCHANGED <<router_vars, recorder_vars, detector_vars, matcher_vars, function_vars,
                   store_vars, race_vars, trace_vars>>

\* generate, lines 186-190: the client goes away (GeneratorExit)
Disconnect(c) ==
    /\ c \in clients
    /\ clients' = clients \ {c}
    /\ UNCHANGED <<serving, event_queue, received, sent>>
    /\ UNCHANGED <<router_vars, recorder_vars, detector_vars, matcher_vars, function_vars,
                   store_vars, race_vars, trace_vars>>

NextBroadcast ==
    \/ StartServer
    \/ StopServer
    \/ Broadcast
    \/ \E c \in Clients : Connect(c)
    \/ \E c \in Clients : Poll(c)
    \/ \E c \in Clients : Disconnect(c)
SpecBroadcast == Init /\ [][NextBroadcast]_vars

\* Frames for the landmark buffer: either hand may be missing, the left hand
\* shows a pose or swipes over it, the right hand shows a pose or none; the
\* landmarks of each frame are the time it was taken.
SequenceLeft ==
    HandResults("Left", {"PALM"}, {None, "SWIPE_LEFT"}, {None}, {FALSE}, {2})
    \cup HandResults("Left", {"FIST"}, {"SWIPE_LEFT"}, {"custom_wave"}, {FALSE}, {2})
SequenceRight ==
    HandResults("Right", {None, "PALM"}, {None}, {None}, {FALSE}, {2})
SequenceFrames == FramesOver(SequenceLeft, SequenceRight)

RouteMarked(fr) ==
    /\ RouteFrame(fr, 1, Landmarks_at(now + 1))
    /\ UNCHANGED <<race_vars, trace_vars, sse_vars, recorder_vars, detector_vars, matcher_vars, function_vars, store_vars>>

NextSequence == now + 1 <= MaxTime /\ \E fr \in SequenceFrames : RouteMarked(fr)
SpecSequence == Init /\ [][NextSequence]_vars

NextMultiplier ==
    \E dt \in Dts : now + dt <= MaxHoldTime /\ \E fr \in MultiplierFrames : Route(fr, dt)
SpecMultiplier == Init /\ [][NextMultiplier]_vars

\* Frames for a lock that lasts: the clock runs long enough for frames to
\* follow the frame that locks; the left hand holds still with no finger or
\* three fingers up, or moves; the right hand swipes, holds still or is
\* missing.
MaxLockTime == 4
LockFrames ==
    OrderedFrames(Holding("Left", {0, 3}), Swiping("Right", {2}) \cup Holding("Right", {1}))
NextLock ==
    \E dt \in Dts : now + dt <= MaxLockTime /\ \E fr \in LockFrames : Route(fr, dt)
SpecLock == Init /\ [][NextLock]_vars

\* GestureRouter._refresh, the callback the router registers with on_reload:
\* the config watcher thread calls it after each reload of the file, between
\* two frames of the frame loop.  It makes a new MultiplierTracker.
Refresh ==
    /\ hold_start' = NewTracker.hold_start
    /\ multiplier' = NewTracker.multiplier
    /\ UNCHANGED <<now, last_gesture, last_action, frame, events, run, fired, combo_run, gap,
                   landmark_buf, dtw_input, hands_lost>>
    /\ UNCHANGED <<race_vars, trace_vars, sse_vars, recorder_vars, detector_vars, matcher_vars, function_vars, store_vars>>

NextReload == NextMultiplier \/ Refresh
SpecReload == Init /\ [][NextReload]_vars

\* ------------------------------------------------------------------------
\* The recorder's state machine.  StartSession and Cancel are the commands
\* START_RECORDING and CANCEL_RECORDING (main.py, lines 232-247); Update is
\* the call of recorder.update from the frame loop (main.py, lines 130-134).
\* ------------------------------------------------------------------------

\* The remaining seconds the user was last shown in the countdown that is
\* running: COUNTDOWN_SECONDS when a countdown begins, then the value of each
\* COUNTDOWN event update returns.
Shown(r) ==
    IF \E i \in 1..Len(r.log) : r.log[i] = "COUNTDOWN" THEN COUNTDOWN_SECONDS
    ELSE IF r.event # Nil /\ r.event[1].state = "COUNTDOWN" /\ r.event[1].countdown # Nil
    THEN r.event[1].countdown[1]
    ELSE notified

\* a session that held samples ends without completing
Drops == is_active(recorder) /\ recorder.samples # <<>>

\* A run has at most MaxSessions sessions, and no session is started after
\* one has completed.
StartSessionCall(gesture_id, gesture_type) ==
    /\ sessions < MaxSessions
    /\ saves = 0
    /\ \E r \in { start_session(recorder, cfg, gesture_id, gesture_type, "Right") } :
           /\ recorder' = r.rec
           /\ cfg' = r.cfg
           /\ log' = r.log
           /\ saves' = saves + r.saves
    /\ returned' = Nil
    /\ last_call' = <<"start_session", gesture_id, gesture_type>>
    /\ notified' = COUNTDOWN_SECONDS
    /\ sessions' = sessions + 1
    /\ dropped' = (dropped \/ Drops)
    /\ UNCHANGED completes

StartSession(gesture_id, gesture_type) ==
    /\ StartSessionCall(gesture_id, gesture_type)
    /\ UNCHANGED <<race_vars, trace_vars, router_vars, sse_vars, function_vars, store_vars, detector_vars, matcher_vars>>

CancelCall ==
    /\ \E r \in { cancel(recorder, cfg) } :
           /\ recorder' = r.rec
           /\ cfg' = r.cfg
           /\ log' = r.log
           /\ returned' = r.event
           /\ saves' = saves + r.saves
    /\ last_call' = <<"cancel">>
    /\ dropped' = (dropped \/ Drops)
    /\ UNCHANGED <<sessions, completes, notified>>

Cancel ==
    /\ CancelCall
    /\ UNCHANGED <<race_vars, trace_vars, router_vars, sse_vars, function_vars, store_vars, detector_vars, matcher_vars>>

\* the camera frame carries the landmarks of the moment it was taken
UpdateCall(fr, dt) ==
    /\ \E r \in { recorder_update(recorder, cfg, fr,
                                   Landmarks(sessions, Len(recorder.samples) + 1), dt) } :
           /\ recorder' = r.rec
           /\ cfg' = r.cfg
           /\ log' = r.log
           /\ returned' = r.event
           /\ saves' = saves + r.saves
           /\ completes' = completes
                  + (IF r.event # Nil /\ r.event[1].event = "complete" THEN 1 ELSE 0)
           /\ notified' = Shown(r)
    /\ last_call' = <<"update">>
    /\ UNCHANGED <<sessions, dropped>>

\* the frame loop calls update while a session is active
Update(fr, dt) ==
    /\ is_active(recorder)
    /\ UpdateCall(fr, dt)
    /\ UNCHANGED <<race_vars, trace_vars, router_vars, sse_vars, function_vars, store_vars, detector_vars, matcher_vars>>

\* the sessions that are started: one records an existing, bound template
\* again as a pose, one records a new template as a motion
SessionKinds == { <<"custom_wave", "static">>, <<"custom_new", "dynamic">> }

\* frames for the recorder: no hand, the preferred hand, the other hand
RecorderHands(label) == HandResults(label, {None}, {None}, {None}, {FALSE}, {2})
VisibleFrames ==
    { FrameResult(<<h>>) : h \in RecorderHands("Right") \cup RecorderHands("Left") }
RecorderFrames == { FrameResult(<<>>) } \cup VisibleFrames

NextRecorder ==
    \/ \E k \in SessionKinds : StartSession(k[1], k[2])
    \/ Cancel
    \/ \E fr \in RecorderFrames, dt \in RecDts : Update(fr, dt)
SpecRecorder == Init /\ [][NextRecorder]_vars

\* One session that is left to run: a hand is visible in every frame, the
\* clock advances with every frame, nothing cancels or replaces the session,
\* and the frame loop keeps calling update while the session is active.
NextFullRun ==
    \/ sessions = 0 /\ \E k \in SessionKinds : StartSession(k[1], k[2])
    \/ \E fr \in VisibleFrames, dt \in RecDts : Update(fr, dt)
SpecFullRun == Init /\ [][NextFullRun]_vars /\ WF_vars(NextFullRun)

\* One session that is left to run while hands come and go: the frame loop
\* keeps calling update, the clock advances with every frame, a hand is
\* visible in frame after frame again and again (but not in every frame),
\* nothing cancels or replaces the session.
UpdateVisible == \E fr \in VisibleFrames, dt \in RecDts : Update(fr, dt)
UpdateAbsent == \E dt \in RecDts : Update(FrameResult(<<>>), dt)
NextSession ==
    \/ sessions = 0 /\ \E k \in SessionKinds : StartSession(k[1], k[2])
    \/ UpdateVisible
    \/ UpdateAbsent
SpecSession == Init /\ [][NextSession]_vars /\ WF_vars(UpdateVisible)

\* ------------------------------------------------------------------------
\* One iteration of the frame loop of main.py with the FrameResult of the
\* classifier: recorder.update if a session is active, then router.route.
\* dt and rec_dt are the time since the last frame in ticks of the router's
\* and of the recorder's clock.  Sessions are started from the WebSocket
\* thread, between two iterations.
\* ------------------------------------------------------------------------

LoopIteration(fr, dt, rec_dt) ==
    /\ IF is_active(recorder) THEN UpdateCall(fr, rec_dt) ELSE UNCHANGED recorder_vars
    /\ RouteCall(fr, dt)
    /\ UNCHANGED <<race_vars, trace_vars, sse_vars, detector_vars, matcher_vars, function_vars, store_vars>>

\* frames of the loop: no hand, or a right hand showing a fist
LoopFrames ==
    { FrameResult(<<>>) }
    \cup { FrameResult(<<h>>) : h \in HandResults("Right", {"FIST"}, {None}, {None}, {FALSE}, {0}) }

NextFrameLoop ==
    \/ \E k \in SessionKinds : StartSession(k[1], k[2])
    \/ now + 1 <= MaxTime /\ \E fr \in LoopFrames, rec_dt \in RecDts : LoopIteration(fr, 1, rec_dt)
SpecFrameLoop == Init /\ [][NextFrameLoop]_vars

\* ------------------------------------------------------------------------
\* The recorder on two threads.  START_RECORDING and CANCEL_RECORDING are
\* handled on the WebSocket thread (main.py, lines 232-247) while the frame
\* loop calls recorder.update (main.py, lines 130-134); Recorder takes no
\* lock.  A command is one step; update is one step unless it captures, and
\* then two: UpdateCheck runs up to the reading of the clock (recorder.py,
\* lines 139-178) and UpdateCapture runs the rest (lines 180-185 with
\* _capture_static / _capture_dynamic, _save_sample and _finalise).  Every
\* behaviour of these steps is an interleaving the two threads can take.
\* ------------------------------------------------------------------------

\* the command has returned: its type, and what is stored and persisted
Handled(type) == [ type |-> type, samples |-> Len(recorder'.samples), saves |-> saves' ]

StartRecording(gesture_id, gesture_type) ==
    /\ StartSessionCall(gesture_id, gesture_type)
    /\ command' = Handled("START_RECORDING")
    /\ UNCHANGED <<frame_thread, trace_vars, router_vars, sse_vars, function_vars, store_vars, detector_vars,
                   matcher_vars>>

CancelRecording ==
    /\ CancelCall
    /\ command' = Handled("CANCEL_RECORDING")
    /\ UNCHANGED <<frame_thread, trace_vars, router_vars, sse_vars, function_vars, store_vars, detector_vars,
                   matcher_vars>>

\* update, lines 139-178, for a frame taken dt ticks after the previous call
UpdateCheck(fr, dt) ==
    /\ frame_thread.pc = "idle"
    /\ is_active(recorder)
    /\ IF recorder.state = "CAPTURING" /\ picked_hand(recorder, fr) # None
       THEN /\ recorder' = [ recorder EXCEPT !.elapsed = Min(recorder.elapsed + dt, MaxElapsed) ]
            /\ frame_thread' = [ pc |-> "capture",
                                 landmarks |-> Landmarks(sessions, Len(recorder.samples) + 1),
                                 elapsed |-> recorder'.elapsed ]
            /\ UNCHANGED <<cfg, returned, log, last_call, sessions, saves, completes, dropped,
                           notified>>
       ELSE /\ UpdateCall(fr, dt)
            /\ UNCHANGED frame_thread
    /\ UNCHANGED <<command, trace_vars, router_vars, sse_vars, function_vars, store_vars, detector_vars,
                   matcher_vars>>

\* update, lines 180-185, with the calls it makes
UpdateCapture ==
    /\ frame_thread.pc = "capture"
    /\ \E r \in { IF recorder.gesture_type = "static"
                  THEN _capture_static(recorder, cfg, frame_thread.landmarks,
                                       frame_thread.elapsed)
                  ELSE _capture_dynamic(recorder, cfg, frame_thread.landmarks,
                                        frame_thread.elapsed) } :
           /\ recorder' = r.rec
           /\ cfg' = r.cfg
           /\ log' = r.log
           /\ returned' = r.event
           /\ saves' = saves + r.saves
           /\ completes' = completes
                  + (IF r.event # Nil /\ r.event[1].event = "complete" THEN 1 ELSE 0)
    /\ last_call' = <<"update">>
    /\ frame_thread' = NoUpdate
    /\ UNCHANGED <<sessions, dropped, notified, command, trace_vars, router_vars, sse_vars, function_vars, store_vars,
                   detector_vars, matcher_vars>>

NextTwoThreads ==
    \/ \E k \in SessionKinds : StartRecording(k[1], k[2])
    \/ CancelRecording
    \/ \E fr \in RecorderFrames, dt \in RecDts : UpdateCheck(fr, dt)
    \/ UpdateCapture
SpecTwoThreads == Init /\ [][NextTwoThreads]_vars

\* ------------------------------------------------------------------------
\* The frame loop of main.py around the classifier: one step is one
\* iteration, that is one call of GestureDetector.process_frame on the
\* hands the tracker reports.  An exception leaving process_frame leaves the
\* loop too (run catches KeyboardInterrupt only).
\* ------------------------------------------------------------------------

Tracked(results, label) == \E k \in 1..Len(results) : results[k].label = label
LandmarksOf(results, label) ==
    results[CHOOSE k \in 1..Len(results) : results[k].label = label]

\* per hand: how many consecutive frames, this one included, showed the hand
\* with the raw static label it has now
Streak(results) ==
    [ h \in HandLabels |->
        IF ~Tracked(results, h) THEN 0
        ELSE IF /\ Tracked(tracked, h)
                /\ _detect_static(LandmarksOf(tracked, h)) = _detect_static(LandmarksOf(results, h))
             THEN IF streak[h] < gesture_buffer_size THEN streak[h] + 1 ELSE streak[h]
             ELSE 1 ]

ProcessFrameCall(results) ==
    /\ running
    /\ \E r \in { process_frame(detector, results) } :
         /\ detector' = r.det
         /\ raised' = r.raised
         /\ detected' = IF r.raised # None THEN detected ELSE r.frame_result
         /\ running' = (r.raised = None)
         /\ streak' = IF r.raised # None THEN streak ELSE Streak(results)
    /\ tracked' = results

ProcessFrame(results) ==
    /\ ProcessFrameCall(results)
    /\ UNCHANGED <<race_vars, trace_vars, router_vars, sse_vars, function_vars, store_vars, recorder_vars,
                   matcher_vars>>

\* where a resting hand is
RestTip == <<500, 500>>
RestWrist == <<500, 800>>

\* the frames of a tracker that sees the hands of the given palette
TrackerResults(lefts, rights) ==
    {<<>>} \cup { <<l>> : l \in lefts } \cup { <<r>> : r \in rights }
           \cup { <<l, r>> : l \in lefts, r \in rights }
           \cup { <<r, l>> : l \in lefts, r \in rights }

\* a fist, and two hands no rule of the decision list matches: thumb and
\* pinky, and three fingers pointing between DOWN and RIGHT
DetectorHands(label) ==
    { HandLandmarks(label, {}, 100, 100, TRUE, 180, RestTip, RestWrist),
      HandLandmarks(label, {"thumb", "pinky"}, 100, 100, TRUE, 180, RestTip, RestWrist),
      HandLandmarks(label, {"index", "middle", "ring"}, 100, 100, TRUE, 630, RestTip, RestWrist) }

NextDetector ==
    \E results \in TrackerResults(DetectorHands("Left"), DetectorHands("Right")) :
        ProcessFrame(results)
SpecDetector == Init /\ [][NextDetector]_vars

\* the right hand closed or fully open, the auxiliary distances on both
\* sides of their thresholds
StaticHands ==
    { HandLandmarks("Right", fingers, sep, pinch, TRUE, 180, RestTip, RestWrist) :
        fingers \in {{}, Fingers}, sep \in {100, 160}, pinch \in {39, 40} }

NextStatic == \E results \in TrackerResults({}, StaticHands) : ProcessFrame(results)
SpecStatic == Init /\ [][NextStatic]_vars

\* ------------------------------------------------------------------------
\* The classifier on a hand that moves.  The right hand, closed, rests and
\* then travels across the image: each frame its middle fingertip is where
\* it was, or 0.01 further right, or (a tracking error, at most one in the
\* position history) 0.01 back or 0.2 further down.  The tracker may also
\* lose the hand.  TrackFrame is ProcessFrame that remembers the detector
\* the frame found.
\* ------------------------------------------------------------------------

TrackFrame(results) ==
    /\ ProcessFrameCall(results)
    /\ earlier' = detector
    /\ UNCHANGED <<race_vars, router_vars, sse_vars, function_vars, store_vars, recorder_vars,
                   matcher_vars>>

MaxTip == 700

StepStill == <<0, 0>>
StepRight == <<10, 0>>
StepBack == <<-10, 0>>
StepDrop  == <<0, 200>>

\* the steps between the positions of a history
StepsOf(positions) ==
    [ k \in 1..(Len(positions) - 1) |->
        <<positions[k + 1][1] - positions[k][1], positions[k + 1][2] - positions[k][2]>> ]

\* the steps the hand can take next
TipSteps(positions) ==
    LET steps == StepsOf(positions)
    IN  { StepRight }
        \cup (IF \A k \in 1..Len(steps) : steps[k] = StepStill THEN { StepStill } ELSE {})
        \cup (IF \A k \in 1..Len(steps) : steps[k] \in { StepStill, StepRight }
              THEN { StepBack, StepDrop } ELSE {})

\* where the fingertip can be in the next frame
NextTips(positions) ==
    IF positions = <<>> THEN { RestTip }
    ELSE { tip \in { <<positions[Len(positions)][1] + step[1],
                       positions[Len(positions)][2] + step[2]>> : step \in TipSteps(positions) } :
             tip[1] <= MaxTip /\ tip[2] <= MaxTip }

MovingHands ==
    { HandLandmarks("Right", {}, 100, 100, TRUE, 180, tip, RestWrist) :
        tip \in NextTips(detector.pos_history["Right"]) }

NextMotion == \E results \in TrackerResults({}, MovingHands) : TrackFrame(results)
SpecMotion == Init /\ [][NextMotion]_vars

\* ------------------------------------------------------------------------
\* The template matcher and the store it reads: a step writes a template
\* to the store (ConfigManager.save_custom_gesture) or matches live data
\* against the store (DTWMatcher.match_static, match_dynamic).
\* ------------------------------------------------------------------------

SaveCustomGesture(gesture_id, gesture_data) ==
    /\ cfg' = save_custom_gesture(cfg, gesture_id, gesture_data)
    /\ fresh' = FALSE
    /\ UNCHANGED <<recorder, returned, log, last_call, sessions, saves, completes, dropped,
                   notified>>
    /\ UNCHANGED <<race_vars, trace_vars, router_vars, sse_vars, function_vars, store_vars, detector_vars, live, matched>>

MatchStatic(live_landmarks) ==
    /\ matched' = match_static(cfg, live_landmarks)
    /\ live' = [ gesture_type |-> "static", data |-> live_landmarks ]
    /\ fresh' = TRUE
    /\ UNCHANGED <<race_vars, trace_vars, router_vars, sse_vars, function_vars, store_vars, recorder_vars, detector_vars>>

MatchDynamic(live_sequence) ==
    /\ matched' = match_dynamic(cfg, live_sequence)
    /\ live' = [ gesture_type |-> "dynamic", data |-> live_sequence ]
    /\ fresh' = TRUE
    /\ UNCHANGED <<race_vars, trace_vars, router_vars, sse_vars, function_vars, store_vars, recorder_vars, detector_vars>>

\* a landmark frame showing a pose, and a stored sample
Pose(pose) == <<1, pose>>
Sample(landmarks) == [ landmarks |-> landmarks ]

\* a stored frame with coordinates too many
LongFrame(pose) == <<1, pose, pose, pose>>

\* the sample lists of the stored templates: none, one, two, one without
\* landmarks, one of another dimensionality; for motions, sequences of two
\* lengths and one with a frame of another dimensionality
StoredSamples(gesture_type) ==
    IF gesture_type = "static"
    THEN { <<>>, <<Sample(Pose(10))>>, <<Sample(Pose(10)), Sample(Pose(21))>>,
           <<Sample(<<>>), Sample(Pose(21))>>,
           <<Sample(LongFrame(14)), Sample(Pose(10))>> }
    ELSE { <<>>, <<Sample(<<Pose(10), Pose(10), Pose(10)>>)>>,
           <<Sample(<<Pose(10), Pose(20), Pose(30)>>), Sample(<<Pose(10), Pose(30)>>)>>,
           <<Sample(<<Pose(10), LongFrame(10), Pose(10)>>),
             Sample(<<Pose(10), Pose(10), Pose(10)>>)>> }

\* the thresholds of the stored templates, in hundredths
Thresholds == {5, DEFAULT_DTW_THRESHOLD}

StoredTemplates ==
    { [ type |-> t, hand |-> "right", enabled |-> en, num_samples |-> Len(samples),
        dtw_threshold |-> th, samples |-> samples ] :
        <<t, samples>> \in { <<"static", x>> : x \in StoredSamples("static") }
                           \cup { <<"dynamic", x>> : x \in StoredSamples("dynamic") },
        en \in BOOLEAN, th \in Thresholds }

\* live frames: at the distance of a threshold from a stored pose, inside
\* it, and far away; the size of the hand varies
LiveFrames == { <<1, 15>>, <<2, 12>>, <<1, 25>>, <<2, 60>> }

\* live motions, one of them too short to be matched
LiveSequences ==
    { <<Pose(10), Pose(10), Pose(10)>>, <<Pose(20), Pose(20), Pose(20)>>,
      <<Pose(10), Pose(20), Pose(30), Pose(30)>>, <<Pose(10), Pose(10)>> }

NextMatcher ==
    \/ \E g \in RecordedIds, t \in StoredTemplates : SaveCustomGesture(g, t)
    \/ \E f \in LiveFrames : MatchStatic(f)
    \/ \E q \in LiveSequences : MatchDynamic(q)
SpecMatcher == Init /\ [][NextMatcher]_vars

\* ------------------------------------------------------------------------
\* The matcher on the frame thread while other threads change the store.
\* match_static starts with ConfigManager.custom_gestures: get() returns,
\* under the lock, the dict object the store holds, and a dict comprehension
\* then copies it item by item outside the lock.  The WebSocket thread
\* writes and deletes templates in that object, under the lock; the watcher
\* thread replaces the whole object (_load).  A step of the frame thread is
\* one step of the dict iterator.
\* ------------------------------------------------------------------------

\* reloads of the configuration file
MaxReloads == 1

RuntimeError == "RuntimeError"

\* the keys of a dict of templates, in the order the dict is walked
Keys(d) == SelectSeq(StoreOrder, LAMBDA g : d[g] # Nil)

\* the dict the iterator of the frame thread walks, as it is now
IteratedDict ==
    IF lookup.contents # Nil THEN lookup.contents[1] ELSE cfg.custom_gestures

\* the dict the comprehension has built
CopiedDict(items) ==
    [ g \in RecordedIds |->
        IF \E k \in 1..Len(items) : items[k][1] = g
        THEN items[CHOOSE k \in 1..Len(items) : items[k][1] = g][2]
        ELSE Nil ]

\* match_static is called: get("custom_gestures") and iter(raw.items())
BeginLookup(live_landmarks) ==
    /\ lookup.pc = "idle"
    /\ lookup' = [ pc |-> "iterating", live |-> live_landmarks, object |-> store_object,
                   contents |-> Nil, used |-> Len(Keys(cfg.custom_gestures)),
                   position |-> 0, items |-> <<>>, raised |-> None ]
    /\ UNCHANGED <<race_vars, trace_vars, store_object, router_vars, sse_vars, recorder_vars, detector_vars, matcher_vars,
                   function_vars>>

\* the next step of the iterator: RuntimeError when the dict has changed
\* size since the iterator was made, else the next item, else the end of
\* the copy, after which _match_against_customs walks the copy
NextItem ==
    /\ lookup.pc = "iterating"
    /\ LET keys == Keys(IteratedDict)
       IN  IF Len(keys) # lookup.used
           THEN /\ lookup' = [ NoLookup EXCEPT !.live = lookup.live, !.raised = RuntimeError ]
                /\ UNCHANGED matcher_vars
           ELSE IF lookup.position < Len(keys)
           THEN /\ lookup' = [ lookup EXCEPT
                                 !.position = @ + 1,
                                 !.items = Append(@, <<keys[lookup.position + 1],
                                                       IteratedDict[keys[lookup.position + 1]]>>) ]
                /\ UNCHANGED matcher_vars
           ELSE /\ lookup' = [ NoLookup EXCEPT !.live = lookup.live ]
                /\ matched' = match_static([ cfg EXCEPT !.custom_gestures =
                                                CopiedDict(lookup.items) ], lookup.live)
                /\ live' = [ gesture_type |-> "static", data |-> lookup.live ]
                /\ fresh' = TRUE
    /\ UNCHANGED <<race_vars, trace_vars, store_object, router_vars, sse_vars, recorder_vars, detector_vars, function_vars>>

\* ConfigManager.delete_custom_gesture
delete_custom_gesture(c, gesture_id) ==
    [ custom_gestures |-> [ c.custom_gestures EXCEPT ![gesture_id] = Nil ],
      bindings |-> [ c.bindings EXCEPT ![gesture_id] = None ] ]

DeleteCustomGesture(gesture_id) ==
    /\ cfg' = delete_custom_gesture(cfg, gesture_id)
    /\ fresh' = FALSE
    /\ UNCHANGED <<recorder, returned, log, last_call, sessions, saves, completes, dropped,
                   notified>>
    /\ UNCHANGED <<race_vars, trace_vars, router_vars, sse_vars, detector_vars, live, matched, function_vars, store_vars>>

\* ConfigManager._load on the watcher thread: the store holds a new object;
\* the object the frame thread may be walking stays as it was
Reload(data) ==
    /\ store_object < MaxReloads
    /\ store_object' = store_object + 1
    /\ cfg' = data
    /\ lookup' = IF lookup.pc = "iterating" /\ lookup.contents = Nil
                 THEN [ lookup EXCEPT !.contents = Some(cfg.custom_gestures) ]
                 ELSE lookup
    /\ fresh' = FALSE
    /\ UNCHANGED <<recorder, returned, log, last_call, sessions, saves, completes, dropped,
                   notified>>
    /\ UNCHANGED <<race_vars, trace_vars, router_vars, sse_vars, detector_vars, live, matched, function_vars>>

\* the templates the other threads write: one pose, two thresholds
WrittenTemplates ==
    { [ type |-> "static", hand |-> "right", enabled |-> TRUE, num_samples |-> 1,
        dtw_threshold |-> th, samples |-> <<Sample(Pose(10))>> ] : th \in Thresholds }

\* the configuration files the watcher thread finds
ReloadedConfigs ==
    { InitialConfig, delete_custom_gesture(InitialConfig, "custom_wave") }
    \cup { save_custom_gesture(InitialConfig, "custom_new", t) : t \in WrittenTemplates }

NextConcurrentStore ==
    \/ \E f \in LiveFrames : BeginLookup(f)
    \/ NextItem
    \/ \E g \in RecordedIds, t \in WrittenTemplates : SaveCustomGesture(g, t)
    \/ \E g \in RecordedIds : DeleteCustomGesture(g)
    \/ \E data \in ReloadedConfigs : Reload(data)
SpecConcurrentStore == Init /\ [][NextConcurrentStore]_vars

\* ------------------------------------------------------------------------
\* Single functions, applied to arguments from a bounded set: a step is one
\* call, and the state keeps the arguments and the value.
\* ------------------------------------------------------------------------

\* the calls of a function that are about to be made
Calls(function, arguments) ==
    { [ function |-> function, arguments |-> a, value |-> Nil ] : a \in arguments }

\* the program as Init leaves it, about to make one of the calls
InitCalling(calls) == Constructed /\ applied \in calls

\* the call returns
Returns(function, value) ==
    /\ applied.function = function
    /\ applied.value = Nil
    /\ applied' = [ applied EXCEPT !.value = Some(value) ]
    /\ UNCHANGED <<race_vars, trace_vars, router_vars, sse_vars, recorder_vars, detector_vars, matcher_vars, store_vars>>

\* the longest sequence _dtw is applied to
MaxSequence == 3

\* normalised frames, as poses in hundredths
FrameVectors == {0, 10, 25}

\* the non-empty sequences of frame vectors
FrameSequences == UNION { [1..n -> FrameVectors] : n \in 1..MaxSequence }

Call_dtw == Returns("_dtw", _dtw(applied.arguments[1], applied.arguments[2]))

InitDtw == InitCalling(Calls("_dtw", FrameSequences \X FrameSequences))
SpecDtw == InitDtw /\ [][Call_dtw]_vars

\* ------------------------------------------------------------------------
\* The classifier's labels, one call at a time: _detect_static on a hand,
\* and the sector test of _detect_dynamic on a net displacement.
\* ------------------------------------------------------------------------

\* every set of extended fingers
FingerSets == SUBSET Fingers

\* pointing angles in the middle of each sector of the code and on both
\* sides of each boundary, in half degrees
SectorAngles == {0, 44, 45, 135, 224, 225, 315, 404, 405, 495, 584, 585, 630, 674, 675, 719}

\* every pointing angle from 0 to 359.5 degrees
AllAngles == 0..719

\* Hands with every set of extended fingers, the auxiliary distances on both
\* sides of their thresholds, the palm facing either way; thumb and index
\* extended with every pointing angle.
LabelledHands ==
    { HandLandmarks("Right", fingers, sep, pinch, palm_facing, angle, RestTip, RestWrist) :
        fingers \in FingerSets, sep \in {100, 160}, pinch \in {39, 40},
        palm_facing \in BOOLEAN, angle \in SectorAngles }
    \cup
    { HandLandmarks("Right", {"thumb", "index"}, 100, 100, palm_facing, angle,
                    RestTip, RestWrist) :
        palm_facing \in BOOLEAN, angle \in AllAngles }

\* net displacements (dx, dy) longer than 0.12, in thousandths, in every
\* direction of the compass and on the sector boundaries
Displacements ==
    { d \in {-260, -130, 0, 130, 260} \X {-260, -130, 0, 130, 260} : d # <<0, 0>> }

Call_detect_static == Returns("_detect_static", _detect_static(applied.arguments[1]))
Call_swipe_label ==
    Returns("swipe_label", swipe_label(applied.arguments[1], applied.arguments[2]))

InitLabels ==
    InitCalling(Calls("_detect_static", { <<lm>> : lm \in LabelledHands })
                \cup Calls("swipe_label", Displacements))
NextLabels == Call_detect_static \/ Call_swipe_label
SpecLabels == InitLabels /\ [][NextLabels]_vars

\* ------------------------------------------------------------------------
\* The static smoothing of one hand that stays visible, frame after frame:
\* _process_hand calls _smooth_gesture with the raw label of the frame and
\* the hand's window (gesture_detector_fixed.py, lines 213-214), and the
\* window the call leaves is the window of the next call.
\* ------------------------------------------------------------------------

\* what _detect_static can hand over: resolved labels, UNKNOWN, nothing
ResolvedLabels == {"FIST", "PALM", "OK"}
RawLabels == ResolvedLabels \cup {"UNKNOWN", None}

\* the windows a hand can have: up to gesture_buffer_size resolved labels
StaticWindows == UNION { [1..n -> ResolvedLabels] : n \in 0..gesture_buffer_size }

Call_smooth_gesture ==
    Returns("_smooth_gesture", _smooth_gesture(applied.arguments[1], applied.arguments[2]))

\* the next frame of the same hand
SmoothNextFrame(gesture) ==
    /\ applied.function = "_smooth_gesture"
    /\ applied.value # Nil
    /\ applied' = [ function |-> "_smooth_gesture",
                    arguments |-> <<gesture, applied.value[1].buf>>,
                    value |-> Nil ]
    /\ UNCHANGED <<race_vars, trace_vars, router_vars, sse_vars, recorder_vars, detector_vars,
                   matcher_vars, store_vars>>

InitSmoothing == InitCalling(Calls("_smooth_gesture", RawLabels \X StaticWindows))
NextSmoothing == Call_smooth_gesture \/ \E gesture \in RawLabels : SmoothNextFrame(gesture)
SpecSmoothing == InitSmoothing /\ [][NextSmoothing]_vars

\* ------------------------------------------------------------------------
\* Claims about the debounce rules (SpecDebounce)
\* ------------------------------------------------------------------------

EventsOf(label) == { e \in { events[i] : i \in 1..Len(events) } : e.hand = label }

\* C1: a hand whose resolved gesture stays the same for N >= 2 consecutive
\* frames without a combo has produced, over those N frames, exactly one
\* primary event if the bound command is one-shot and exactly N if it is
\* repeatable.
C1_OneShotRule ==
    \A h \in HandLabels :
        (run[h] >= 2 /\ ActionIn(frame, h) # None) =>
            IF is_repeatable(ActionIn(frame, h)) THEN fired[h] = run[h] ELSE fired[h] = 1

\* C2: in every frame in which a hand's resolved gesture has a companion
\* command and a bound primary command, the companion event is returned for
\* that hand with repeatable = TRUE.
C2_SecondaryEveryFrame ==
    \A h \in HandLabels :
        (/\ ResolvedIn(frame, h) # None
         /\ CONTINUOUS_SECONDARY(ResolvedIn(frame, h)) # None
         /\ ActionIn(frame, h) # None)
        => \E e \in EventsOf(h) :
               e.action_id = CONTINUOUS_SECONDARY(ResolvedIn(frame, h)) /\ e.repeatable

\* C3: in a frame without a combo, a hand whose resolved gesture is bound
\* and differs from what was resolved for it in the preceding frame gets a
\* primary event.
C3_ChangedGestureFires ==
    \A h \in HandLabels :
        (run[h] = 1 /\ ActionIn(frame, h) # None) => PrimaryCount(events, h) = 1

\* C4: a frame with a combo returns at most one event, for hand "Both", and
\* no event of the Left or Right hand.
C4_ComboExclusive ==
    frame.combo_gesture # None =>
        /\ Len(events) <= 1
        /\ \A i \in 1..Len(events) :
               events[i].hand = "Both" /\ events[i].gesture_id = frame.combo_gesture

\* a combo frame that returned the combo's event although both hands show
\* poses that are bound on their own
C4_Witness ==
    /\ frame.combo_gesture # None
    /\ Len(events) = 1
    /\ \A h \in HandLabels : resolved_action(HandOf(frame.hands, h)) # None

\* C5: a combo bound to a one-shot command returns its event in the first
\* frame of every run of frames showing it and in none of the following
\* frames of the run; bound to a repeatable command, in every frame.
C5_ComboFiresOnEntry ==
    (frame.combo_gesture # None /\ get_binding(frame.combo_gesture) # None) =>
        IF is_repeatable(get_binding(frame.combo_gesture)) \/ combo_run = 1
        THEN Len(events) = 1
        ELSE events = <<>>

Other(label) == IF label = "Left" THEN "Right" ELSE "Left"
Tracker == [ hold_start |-> hold_start, multiplier |-> multiplier ]
Present(label) == HasHand(frame.hands, label)
Stationary(label) == Present(label) /\ HandOf(frame.hands, label).is_stationary
Moving(label) == Present(label) /\ ~HandOf(frame.hands, label).is_stationary

\* C7: after every call of route, a hand that the frame reported as moving,
\* or that the frame did not contain, has no hold timer and no locked value.
C7_MultiplierRelease ==
    \A h \in HandLabels :
        ~Stationary(h) => hold_start[h] = Nil /\ multiplier[h] = Nil

\* C8 as claimed: a hand held still since its hold began is locked once the
\* elapsed time has reached the hold duration, the locked value is what the
\* other hand's swipe is multiplied by, and a moving hand has nothing locked
\* and gives the other hand the multiplier 1.
C8_LockedValueIsTheMultiplier ==
    \A h \in HandLabels :
        /\ (Stationary(h) /\ now - hold_start[h][1] >= HoldTicks) => multiplier[h] # Nil
        /\ multiplier[h] # Nil =>
               get_multiplier_for_other_hand(Tracker, Other(h)) = multiplier[h][1]
        /\ Moving(h) =>
               multiplier[h] = Nil /\ get_multiplier_for_other_hand(Tracker, Other(h)) = 1

\* what holds in every state after a call of route, for hand h
C8_After(h) ==
    /\ Stationary(h) => hold_start[h] # Nil
    /\ (Stationary(h) /\ now - hold_start[h][1] >= HoldTicks) => multiplier[h] # Nil
    /\ multiplier[h] # Nil => hold_start[h] # Nil /\ now - hold_start[h][1] >= HoldTicks
    /\ multiplier[h] # Nil =>
           get_multiplier_for_other_hand(Tracker, Other(h))
               = IF multiplier[h][1] = 0 THEN 1 ELSE multiplier[h][1]
    /\ Moving(h) =>
           /\ hold_start[h] = Nil /\ multiplier[h] = Nil
           /\ get_multiplier_for_other_hand(Tracker, Other(h)) = 1

\* C8, amended: a hand held still is locked in the first frame in which the
\* elapsed time has reached the hold duration and not before, to
\* min(F, max_fingers), F being its finger count in that frame; the other
\* hand's swipe is multiplied by the locked value when it is at least 1 and
\* by 1 when it is 0; a moving hand has nothing locked and gives 1.
C8_MultiplierLock ==
    [][ \A h \in HandLabels :
          /\ C8_After(h)'
          /\ (multiplier[h] = Nil /\ multiplier'[h] # Nil) =>
                /\ HasHand(frame'.hands, h)
                /\ HandOf(frame'.hands, h).is_stationary
                /\ multiplier'[h] =
                       Some(Min(HandOf(frame'.hands, h).finger_count, max_fingers)) ]_vars

\* the frame that locks a hand at exactly the hold duration, with 4 fingers
C8_Witness ==
    \E h \in HandLabels :
        /\ Stationary(h)
        /\ hold_start[h] = Some(now - HoldTicks)
        /\ HandOf(frame.hands, h).finger_count = 4
        /\ multiplier[h] = Some(4)
        /\ get_multiplier_for_other_hand(Tracker, Other(h)) = 4

ModifierEvents ==
    { e \in { events[i] : i \in 1..Len(events) } :
        e.gesture_id \in TAB_SWIPE_GESTURES /\ action_has_modifier(e.action_id) }

\* C9 as claimed: the magnitude of a lateral swipe bound to a command with
\* the finger_count modifier is min(finger count * locked value of the other
\* hand, max_product), the locked value counting as 1 only when there is none.
C9_MagnitudeIsProduct ==
    \A e \in ModifierEvents :
        e.magnitude =
            Min(HandOf(frame.hands, e.hand).finger_count
                    * (IF multiplier[Other(e.hand)] = Nil THEN 1
                       ELSE multiplier[Other(e.hand)][1]),
                max_product)

\* C9, amended: the magnitude is min(max(1, finger count) * m, max_product),
\* m being the other hand's locked value when it is at least 1, and 1 when
\* nothing is locked or 0 is locked.
C9_MagnitudeScaling ==
    \A e \in ModifierEvents :
        e.magnitude =
            Min(Max(1, HandOf(frame.hands, e.hand).finger_count)
                    * (IF multiplier[Other(e.hand)] = Nil \/ multiplier[Other(e.hand)] = Some(0)
                       THEN 1
                       ELSE multiplier[Other(e.hand)][1]),
                max_product)

\* a swipe with 3 fingers while the other hand has locked 4: magnitude 12
C9_Witness ==
    \E e \in ModifierEvents :
        /\ HandOf(frame.hands, e.hand).finger_count = 3
        /\ multiplier[Other(e.hand)] = Some(4)
        /\ e.magnitude = 12

\* C10: every returned event has a magnitude of at least 1, and of exactly 1
\* unless it is a lateral swipe bound to a command with the finger_count
\* modifier.
C10_MagnitudeAtLeastOne ==
    \A i \in 1..Len(events) :
        /\ events[i].magnitude \in Nat
        /\ events[i].magnitude >= 1
        /\ events[i] \notin ModifierEvents => events[i].magnitude = 1

\* a template matched over a lateral swipe while the other hand has locked
\* a multiplier of 2 or more: the template's event has magnitude 1
C10_Witness ==
    \E i \in 1..Len(events) :
        /\ events[i].gesture_id \in CustomGestures
        /\ HandOf(frame.hands, events[i].hand).dynamic_gesture \in TAB_SWIPE_GESTURES
        /\ multiplier[Other(events[i].hand)] # Nil
        /\ multiplier[Other(events[i].hand)][1] >= 2
        /\ events[i].magnitude = 1

\* ------------------------------------------------------------------------
\* Claims about the template override (SpecDebounce)
\* ------------------------------------------------------------------------

\* the hand's observation in the last frame
Hand(label) == HandOf(frame.hands, label)

\* a template id the matcher returned that has a binding of its own
HasOwnBinding(cm) == cm # None /\ get_binding(cm) # None

\* the gesture id and the command the claim expects for an observation
ExpectedGesture(hr) ==
    IF HasOwnBinding(hr.custom_match) THEN hr.custom_match ELSE detected_gesture(hr)
ExpectedAction(hr) == get_binding(ExpectedGesture(hr))

\* the call of route found every debounce slot empty
SlotsWereEmpty == now = 1 \/ gap.age = 1

\* C11: for a hand with a built-in gesture in a frame without a combo, every
\* primary event carries the matched template's id and command only when the
\* template has a binding of its own, and the built-in gesture's id and
\* command otherwise; when the call found the debounce slots empty and that
\* command exists, the event is returned.
C11_TemplateOverride ==
    \A h \in HandLabels :
        (/\ frame.combo_gesture = None
         /\ Present(h)
         /\ detected_gesture(Hand(h)) # None)
        => /\ \A e \in EventsOf(h) :
                  ~IsSecondary(e) =>
                      /\ e.gesture_id = ExpectedGesture(Hand(h))
                      /\ e.action_id = ExpectedAction(Hand(h))
           /\ (SlotsWereEmpty /\ ExpectedAction(Hand(h)) # None)
                  => PrimaryCount(events, h) = 1

\* ------------------------------------------------------------------------
\* Claims about the recording session (SpecFullRun, SpecRecorder)
\* ------------------------------------------------------------------------

\* the template stored under the recorder's gesture id (Nil: none)
StoredTemplate == cfg.custom_gestures[recorder.gesture_id]

\* the session has run to its end: six samples, one template holding them,
\* one call of save_custom_gesture, one "complete" event, recorder idle
RunComplete ==
    /\ sessions = 1
    /\ ~is_active(recorder)
    /\ Len(recorder.samples) = TARGET_SAMPLES
    /\ saves = 1
    /\ completes = 1
    /\ StoredTemplate # Nil
    /\ StoredTemplate[1].samples = recorder.samples
    /\ StoredTemplate[1].num_samples = TARGET_SAMPLES
    /\ \A i \in 1..TARGET_SAMPLES : recorder.samples[i].landmarks # <<>>

\* C12: a session that is started and then fed frames with a hand visible
\* while the clock advances reaches, and then keeps, the state in which
\* exactly TARGET_SAMPLES samples are stored, exactly one "complete" event has
\* been returned, save_custom_gesture has been called exactly once and the
\* recorder is IDLE.
C12_FullRun == <>[]RunComplete

\* the update that returned "complete" for a motion template of six samples
C12_Witness ==
    /\ RunComplete
    /\ recorder.gesture_type = "dynamic"
    /\ returned = Some(RecordingEvent("complete", "COMPLETE", recorder.gesture_id,
                                      TARGET_SAMPLES, Nil))
    /\ log = <<"COMPLETE", "IDLE">>

\* the camera frames a stored sample was computed from: one median frame
\* for a pose, the recorded sequence for a motion
FramesOf(sample, gesture_type) ==
    IF gesture_type = "static" THEN { sample.landmarks }
    ELSE { sample.landmarks[j] : j \in 1..Len(sample.landmarks) }

\* template t holds TARGET_SAMPLES samples, the i-th computed from frames
\* that were taken during session n while the i-th sample was collected
HoldsSessionSamples(t, n) ==
    /\ Len(t.samples) = TARGET_SAMPLES
    /\ t.num_samples = TARGET_SAMPLES
    /\ \A i \in 1..TARGET_SAMPLES :
           /\ FramesOf(t.samples[i], t.type) # {}
           /\ \A f \in FramesOf(t.samples[i], t.type) : f = Landmarks(n, i)

C14_FullReset ==
    (~is_active(recorder) /\ last_call[1] \in {"cancel", "update"}) =>
        recorder.samples = <<>> /\ recorder.frame_buffer = <<>>

\* C15: start_session called while a session is active cancels it and leaves
\* the recorder in COUNTDOWN for the new gesture id and kind, with no
\* captured sample, an empty frame buffer and a phase timer started at that
\* moment; the template store is not touched.
C15_Restart ==
    [][ (last_call'[1] = "start_session" /\ is_active(recorder)) =>
            /\ recorder'.state = "COUNTDOWN"
            /\ recorder'.gesture_id = last_call'[2]
            /\ recorder'.gesture_type = last_call'[3]
            /\ recorder'.samples = <<>>
            /\ recorder'.frame_buffer = <<>>
            /\ recorder'.elapsed = 0
            /\ log' = <<"IDLE", "COUNTDOWN">>
            /\ cfg' = cfg
      ]_vars

\* start_session has just replaced the first session, which held samples
C15_Witness ==
    /\ last_call[1] = "start_session"
    /\ sessions = 2
    /\ dropped
    /\ log = <<"IDLE", "COUNTDOWN">>
    /\ recorder.state = "COUNTDOWN"
    /\ recorder.samples = <<>>

\* C16: every call that changes the state of the session or stores a sample
\* returns a RecordingEvent to its caller; the event names a state the call
\* entered and, when a sample was stored, the new number of samples.
C16_EveryChangeNotified ==
    [][ (log' # <<>> \/ Len(recorder'.samples) > Len(recorder.samples)) =>
            /\ returned' # Nil
            /\ log' # <<>> =>
                   \E i \in 1..Len(log') : returned'[1].state = log'[i]
            /\ Len(recorder'.samples) > Len(recorder.samples) =>
                   returned'[1].samples_done = Len(recorder'.samples)
      ]_vars

\* ------------------------------------------------------------------------
\* Claims about the classifier (SpecDetector, SpecStatic)
\* ------------------------------------------------------------------------

BuffersEmpty(label) ==
    /\ detector.static_buf[label] = <<>>
    /\ detector.dynamic_buf[label] = <<>>
    /\ detector.pos_history[label] = <<>>
    /\ detector.wrist_history[label] = <<>>

\* C17: after process_frame, every hand that was absent from the frame has
\* empty static, dynamic, position-history and wrist-history buffers, also
\* when the other hand was detected in that frame.
C17_AbsentHandCleared ==
    \A h \in HandLabels : (raised = None /\ ~Tracked(tracked, h)) => BuffersEmpty(h)

\* the decision list of _detect_static has no rule for the hand
Unmatched(lm) == _detect_static(lm) = AttributeError

\* C18: a frame with a hand that matches none of the static pose rules gives
\* that hand an absent static_gesture, no exception leaves process_frame,
\* and the frame loop goes on.
C18_NoFrameFatal ==
    /\ raised = None
    /\ running
    /\ \A k \in 1..Len(tracked) :
          Unmatched(tracked[k]) =>
              /\ HasHand(detected.hands, tracked[k].label)
              /\ HandOf(detected.hands, tracked[k].label).static_gesture = None

\* the raw label _detect_static gave the hand in the last frame: the newest
\* entry of its smoothing window
RawLabel(label) == detector.static_buf[label][Len(detector.static_buf[label])]

\* the same raw label for enough consecutive frames to fill the window
WindowFilled(label) == streak[label] >= gesture_buffer_size

\* the hands of the last frame with the given number of extended fingers
HandsShowing(n) ==
    { tracked[k] : k \in { i \in 1..Len(tracked) :
                             raised = None /\ _count_extended_fingers(tracked[i]) = n } }

ClosedHandIsFist == \A lm \in HandsShowing(0) : RawLabel(lm.label) = "FIST"

SmoothedFollowsRaw ==
    \A k \in 1..Len(tracked) :
        (raised = None /\ WindowFilled(tracked[k].label)) =>
            HandOf(detected.hands, tracked[k].label).static_gesture
                = RawLabel(tracked[k].label)

\* C19 as stated: whatever the auxiliary distances, _detect_static returns
\* FIST when no finger is extended and PALM when all five are, and once the
\* same raw label has filled the smoothing window the smoothed label equals it.
C19_FistAndPalm ==
    /\ ClosedHandIsFist
    /\ \A lm \in HandsShowing(5) : RawLabel(lm.label) = "PALM"
    /\ SmoothedFollowsRaw

\* C19, amended: whatever the auxiliary distances, _detect_static returns
\* FIST when no finger is extended; when all five are extended it returns
\* PALM if the thumb-index pinch distance is at least 0.04 and OK if it is
\* below; and once the same raw label has filled the smoothing window the
\* smoothed label equals it.
C19_FistPalmOrOk ==
    /\ ClosedHandIsFist
    /\ \A lm \in HandsShowing(5) :
          RawLabel(lm.label) = IF lm.pinch < 40 THEN "OK" ELSE "PALM"
    /\ SmoothedFollowsRaw

C19_Witness ==
    /\ raised = None
    /\ Tracked(tracked, "Right")
    /\ _count_extended_fingers(LandmarksOf(tracked, "Right")) = 5
    /\ LandmarksOf(tracked, "Right").pinch < 40
    /\ WindowFilled("Right")
    /\ HandOf(detected.hands, "Right").static_gesture = "OK"

\* ------------------------------------------------------------------------
\* Claims about the template matcher (SpecMatcher)
\* ------------------------------------------------------------------------

\* the live data as _match_against_customs receives them
LiveData ==
    IF live.gesture_type = "static" THEN _flatten(live.data)
    ELSE [ k \in 1..Len(live.data) |-> _flatten(live.data[k]) ]

\* the scores of the samples of a stored template against the live data
ScoresOf(gesture_id) ==
    sample_scores(cfg.custom_gestures[gesture_id][1].samples, LiveData, live.gesture_type)

MeanBelowThreshold(gesture_id) ==
    /\ cfg.custom_gestures[gesture_id] # Nil
    /\ ScoresOf(gesture_id) # <<>>
    /\ Less(mean(ScoresOf(gesture_id)),
            <<cfg.custom_gestures[gesture_id][1].dtw_threshold, 1>>)

\* C20: the id match_static / match_dynamic returns, if any, is that of a
\* template whose mean score over its scored samples is strictly less than
\* the template's dtw_threshold, whatever the store holds and the live
\* input is.
C20_BelowThreshold == (fresh /\ matched # None) => MeanBelowThreshold(matched)

\* a match was returned while another enabled template of the same kind
\* was passed over for a mean not below its threshold
C20_Witness ==
    /\ fresh
    /\ matched # None
    /\ MeanBelowThreshold(matched)
    /\ \E g \in RecordedIds \ {matched} :
          /\ cfg.custom_gestures[g] # Nil
          /\ cfg.custom_gestures[g][1].enabled
          /\ cfg.custom_gestures[g][1].type = live.gesture_type
          /\ ScoresOf(g) # <<>>
          /\ ~MeanBelowThreshold(g)

\* ------------------------------------------------------------------------
\* Claims about the DTW distance (SpecDtw)
\* ------------------------------------------------------------------------

\* the total local costs of the monotone warping paths from the first cell
\* to cell (i, j): a path enters a cell from the left, from below, or
\* diagonally
RECURSIVE WarpingPathCosts(_, _, _, _)
WarpingPathCosts(seq_a, seq_b, i, j) ==
    LET local == Abs(seq_a[i] - seq_b[j])
        before == (IF i > 1 THEN WarpingPathCosts(seq_a, seq_b, i - 1, j) ELSE {})
                  \cup (IF j > 1 THEN WarpingPathCosts(seq_a, seq_b, i, j - 1) ELSE {})
                  \cup (IF i > 1 /\ j > 1
                        THEN WarpingPathCosts(seq_a, seq_b, i - 1, j - 1) ELSE {})
    IN  IF i = 1 /\ j = 1 THEN {local} ELSE { c + local : c \in before }

CheapestWarpingPath(seq_a, seq_b) ==
    CHOOSE c \in WarpingPathCosts(seq_a, seq_b, Len(seq_a), Len(seq_b)) :
        \A d \in WarpingPathCosts(seq_a, seq_b, Len(seq_a), Len(seq_b)) : c <= d

\* C21: for non-empty sequences a and b, _dtw(a, b) = _dtw(b, a); _dtw(s, s)
\* is 0; and the value is the least total local cost over the monotone
\* warping paths from the first cell to the last, divided by n + m.
C21_DtwDistance ==
    (applied.function = "_dtw" /\ applied.value # Nil) =>
        LET seq_a == applied.arguments[1]
            seq_b == applied.arguments[2]
            value == applied.value[1]
        IN  /\ value = _dtw(seq_b, seq_a)
            /\ seq_a = seq_b => value[1] = 0
            /\ value = <<CheapestWarpingPath(seq_a, seq_b), Len(seq_a) + Len(seq_b)>>

\* sequences of different lengths, where the cheapest path has a diagonal step
C21_Witness ==
    /\ applied.function = "_dtw"
    /\ applied.arguments = <<<<0, 10, 25>>, <<0, 25>>>>
    /\ applied.value = Some(<<10, 5>>)

\* ------------------------------------------------------------------------
\* Claims about the matcher beside other threads (SpecConcurrentStore)
\* ------------------------------------------------------------------------

\* C22: a match_static / match_dynamic call on the frame thread, while
\* another thread replaces the configuration or writes or deletes a custom
\* gesture, always ends with a template id or no match; no interleaving
\* makes the lookup fail.
C22_LookupCompletes == lookup.raised = None

\* ------------------------------------------------------------------------
\* Claims about the router beside the config watcher thread (SpecReload)
\* ------------------------------------------------------------------------

\* the step is a call of route: only route reads the clock
RouteStep == now' # now

\* C23: the debounce and multiplier state of the router changes only in a
\* call of route, and a locked multiplier is lost only in a call of route
\* whose frame shows the hand moving or does not show it.
C23_RouterOwnsItsState ==
    [][ /\ <<hold_start, multiplier, last_gesture, last_action>>'
             # <<hold_start, multiplier, last_gesture, last_action>> => RouteStep
        /\ \A h \in HandLabels :
              (multiplier[h] # Nil /\ multiplier'[h] = Nil) =>
                  RouteStep /\ ~(Stationary(h))' ]_vars

\* ------------------------------------------------------------------------
\* Claims about the frame loop (SpecFrameLoop)
\* ------------------------------------------------------------------------

\* C24: in an iteration of the frame loop in which a recording session is
\* active, the frame goes to the recorder only: route produces no event for
\* it.
C24_OneConsumer == [][(RouteStep /\ is_active(recorder)) => events' = <<>>]_vars

\* ------------------------------------------------------------------------
\* C25.  The edges of the recording state machine.  The states a call passes
\* through are the state it found followed by the states _transition
\* entered (log); the sample count while a state of the call is entered is
\* the count the call leaves, since samples are appended before and emptied
\* before the transitions that follow them.
\* ------------------------------------------------------------------------

\* the states of one call, in order
PathOf(before, entered) == <<before>> \o entered

\* start: from IDLE to COUNTDOWN, by start_session
StartEdge(from, to) ==
    from = "IDLE" /\ to = "COUNTDOWN" /\ last_call'[1] = "start_session"

\* countdown expired: the phase had lasted COUNTDOWN_SECONDS when update ran
CountdownEdge(from, to) ==
    /\ from = "COUNTDOWN" /\ to = "CAPTURING" /\ last_call'[1] = "update"
    /\ \E dt \in RecDts :
           COUNTDOWN_SECONDS - (Min(recorder.elapsed + dt, MaxElapsed) \div TicksPerSecond) <= 0

\* sample stored, fewer than TARGET_SAMPLES
SampleEdge(from, to) ==
    /\ from = "CAPTURING" /\ to = "BETWEEN" /\ last_call'[1] = "update"
    /\ Len(recorder'.samples) = Len(recorder.samples) + 1
    /\ Len(recorder'.samples) < TARGET_SAMPLES

\* rest expired
RestEdge(from, to) ==
    /\ from = "BETWEEN" /\ to = "COUNTDOWN" /\ last_call'[1] = "update"
    /\ \E dt \in RecDts : Min(recorder.elapsed + dt, MaxElapsed) >= BETWEEN_REST_TICKS

\* sample stored, TARGET_SAMPLES reached: COMPLETE, then IDLE
CompleteEdge(from, to) ==
    /\ last_call'[1] = "update"
    /\ Len(recorder'.samples) = Len(recorder.samples) + 1
    /\ Len(recorder'.samples) = TARGET_SAMPLES
    /\ \/ from = "CAPTURING" /\ to = "COMPLETE"
       \/ from = "COMPLETE" /\ to = "IDLE"

\* cancel, called directly or by start_session
CancelEdge(from, to) ==
    from # "IDLE" /\ to = "IDLE" /\ last_call'[1] \in {"cancel", "start_session"}

EdgesAllowed ==
    LET path == PathOf(recorder.state, log')
    IN  /\ recorder'.state = path[Len(path)]
        /\ \A i \in 1..(Len(path) - 1) :
               path[i] # path[i + 1] =>
                   \/ StartEdge(path[i], path[i + 1])
                   \/ CountdownEdge(path[i], path[i + 1])
                   \/ SampleEdge(path[i], path[i + 1])
                   \/ RestEdge(path[i], path[i + 1])
                   \/ CompleteEdge(path[i], path[i + 1])
                   \/ CancelEdge(path[i], path[i + 1])

CountInRange == Len(recorder.samples) \in 0..TARGET_SAMPLES

\* the states the last call entered and the state it left
EnteredStates == { log[i] : i \in 1..Len(log) } \cup { recorder.state }

CancelledAndQuiet == command.type = "CANCEL_RECORDING" /\ frame_thread.pc = "idle"

\* C26: once cancel has returned and update has finished, the recorder is
\* IDLE and stays IDLE until the next start_session, and nothing is stored
\* or persisted after the cancel.
C26_CancelWins ==
    CancelledAndQuiet =>
        /\ recorder.state = "IDLE"
        /\ Len(recorder.samples) = command.samples
        /\ saves = command.saves

\* ------------------------------------------------------------------------
\* C27.  The motion label a hand is reported with, against the entries of
\* its motion window.
\* ------------------------------------------------------------------------

\* the motion label of the hand in the last frame's result, None when the
\* hand is not in it
dynamic_gesture(label) ==
    IF HasHand(detected.hands, label)
    THEN detected.hands[CHOOSE k \in 1..Len(detected.hands) :
                            detected.hands[k].label = label].dynamic_gesture
    ELSE None

\* C27: a hand's dynamic_gesture is a label only if at least 2 entries of
\* its motion window equal that label.
C27_TwoEntriesAgree ==
    \A h \in HandLabels :
        dynamic_gesture(h) # None =>
            Count(detector.dynamic_buf[h], dynamic_gesture(h)) >= 2

\* ------------------------------------------------------------------------
\* C28.  One frame without a raw motion match between two frames with one.
\* The raw result of a frame is _detect_dynamic of the position history the
\* frame left; earlier is the detector before the last frame.
\* ------------------------------------------------------------------------

raw_dyn(det, label) == _detect_dynamic(det.pos_history[label])

\* the hand was present in the last two frames (its history grew or slid
\* on) and in the frame being processed
PresentThroughout(label) ==
    /\ earlier.pos_history[label] # <<>>
    /\ Tracked(tracked, label)
    /\ Tracked(tracked', label)

\* the last frame but one matched, the last frame did not, this frame does
SingleMiss(label) ==
    /\ raw_dyn(earlier, label) # None
    /\ raw_dyn(detector, label) = None
    /\ raw_dyn(detector', label) # None

\* C28: when frame k+1 is processed after a single missed frame k, the
\* motion window still holds the entries accumulated up to frame k-1,
\* whatever the length of the position history.
C28_SingleMissKeepsWindow ==
    [][ \A h \in HandLabels :
            (PresentThroughout(h) /\ SingleMiss(h)) =>
                detector.dynamic_buf[h] = earlier.dynamic_buf[h] ]_vars

\* ------------------------------------------------------------------------
\* C29, C30.  The labels of single calls (SpecLabels).
\* ------------------------------------------------------------------------

Directions == {"RIGHT", "UP", "LEFT", "DOWN"}
SwipeLabels == {"SWIPE_RIGHT", "SWIPE_DOWN", "SWIPE_LEFT", "SWIPE_UP"}

\* _detect_static has returned for a hand
StaticReturned == applied.function = "_detect_static" /\ applied.value # Nil

\* C29: _detect_static returns a directional label only when the index
\* finger is the only extended finger.
C29_DirectionOnlyForIndexAlone ==
    (StaticReturned /\ applied.value[1] \in Directions) =>
        applied.arguments[1].fingers = {"index"}

\* the directional rule is reached: the index finger is extended and no
\* rule before it returned
DirectionalRuleReached(lm) ==
    /\ _is_finger_extended(lm, "index")
    /\ _detect_static(lm) \notin {"FIST", "THUMBS_UP", "INDEX_ONLY", "PEACE", "OK", "PALM"}

\* how many of the 720 half degrees of the circle the label is given to
SectorWidth(label, palm_facing) ==
    Cardinality({ angle \in AllAngles : pointing_label(angle, palm_facing) = label })

\* C30: when the directional rule is reached, every pointing angle yields
\* one of RIGHT, UP, LEFT, DOWN and the sector of each is 90 degrees wide;
\* every swipe displacement angle yields one of the four swipe labels.
C30_SectorsCoverTheCircle ==
    /\ (StaticReturned /\ DirectionalRuleReached(applied.arguments[1])) =>
           /\ applied.value[1] \in Directions
           /\ SectorWidth(applied.value[1], applied.arguments[1].palm_facing) = 180
    /\ (applied.function = "swipe_label" /\ applied.value # Nil) =>
           applied.value[1] \in SwipeLabels

\* ------------------------------------------------------------------------
\* C31.  Static smoothing (SpecSmoothing).
\* ------------------------------------------------------------------------

\* the labels with the highest count in a window
HighestCount(buf) ==
    { x \in { buf[k] : k \in 1..Len(buf) } :
        \A y \in { buf[k] : k \in 1..Len(buf) } : Count(buf, x) >= Count(buf, y) }

\* the window's last n entries are all the label
HeldFor(buf, label, n) ==
    Len(buf) >= n /\ \A k \in (Len(buf) - n + 1)..Len(buf) : buf[k] = label

\* C31: the window holds at most gesture_buffer_size labels, the most recent
\* ones; with 3 or more entries the visible label has the highest count in
\* the window; a raw label UNKNOWN yields no label and leaves the window
\* unchanged; a raw label held for 3 consecutive frames is the visible label.
C31_StaticSmoothing ==
    (applied.function = "_smooth_gesture" /\ applied.value # Nil) =>
        LET gesture == applied.arguments[1]
            before  == applied.arguments[2]
            label   == applied.value[1].label
            buf     == applied.value[1].buf
        IN  /\ Len(buf) <= gesture_buffer_size
            /\ gesture \in ResolvedLabels =>
                   /\ buf = push(before, gesture, gesture_buffer_size)
                   /\ Len(buf) >= 3 => label \in HighestCount(buf)
                   /\ HeldFor(buf, gesture, 3) => label = gesture
            /\ gesture = "UNKNOWN" => label = None /\ buf = before

\* the third PALM in a row after a window full of FIST: PALM is visible
C31_Witness ==
    /\ applied.function = "_smooth_gesture"
    /\ applied.arguments = <<"PALM", <<"FIST", "FIST", "FIST", "PALM", "PALM">>>>
    /\ applied.value = Some([ label |-> "PALM", buf |-> <<"FIST", "FIST", "PALM", "PALM", "PALM">> ])

\* ------------------------------------------------------------------------
\* C32.  The best template wins (SpecMatcher).
\* ------------------------------------------------------------------------

\* match_dynamic turns a request of fewer than 3 frames down before any
\* sample is scored
TurnedDown == live.gesture_type = "dynamic" /\ Len(live.data) < 3

\* the templates that are enabled, of the requested kind, have a scored
\* sample and a mean score below their own threshold
AcceptedTemplates ==
    IF TurnedDown THEN {}
    ELSE { g \in RecordedIds :
             /\ cfg.custom_gestures[g] # Nil
             /\ cfg.custom_gestures[g][1].enabled
             /\ cfg.custom_gestures[g][1].type = live.gesture_type
             /\ MeanBelowThreshold(g) }

\* C32: match_static / match_dynamic return an accepted template whose mean
\* score no accepted template undercuts, and no template when none is
\* accepted; never a disabled template or one of the other kind.
C32_BestTemplateWins ==
    fresh =>
        IF AcceptedTemplates = {} THEN matched = None
        ELSE /\ matched \in AcceptedTemplates
             /\ \A g \in AcceptedTemplates :
                    LessOrEqual(mean(ScoresOf(matched)), mean(ScoresOf(g)))

\* two templates are accepted and the one walked first has the lower mean
C32_Witness ==
    /\ fresh
    /\ AcceptedTemplates = RecordedIds
    /\ matched = StoreOrder[1]
    /\ Less(mean(ScoresOf(StoreOrder[1])), mean(ScoresOf(StoreOrder[2])))

\* ------------------------------------------------------------------------
\* C33.  Malformed samples are skipped (SpecMatcher).
\* ------------------------------------------------------------------------

\* a stored frame of the dimensionality of the live frames
FullFrame(landmarks) == Len(landmarks) = Len(Pose(0))

\* a sample that can be scored: landmarks are present and of the
\* dimensionality of the live data
Scorable(sample, gesture_type) ==
    /\ sample.landmarks # <<>>
    /\ IF gesture_type = "static" THEN FullFrame(sample.landmarks)
       ELSE \A k \in 1..Len(sample.landmarks) : FullFrame(sample.landmarks[k])

\* a template without the samples that cannot be scored
RECURSIVE ScorableSamples(_, _)
ScorableSamples(samples, gesture_type) ==
    IF samples = <<>> THEN <<>>
    ELSE IF Scorable(Head(samples), gesture_type)
    THEN <<Head(samples)>> \o ScorableSamples(Tail(samples), gesture_type)
    ELSE ScorableSamples(Tail(samples), gesture_type)

\* the store as it would be had the malformed samples never been written
WithoutMalformed(c) ==
    [ c EXCEPT !.custom_gestures =
        [ g \in RecordedIds |->
            IF c.custom_gestures[g] = Nil THEN Nil
            ELSE Some([ c.custom_gestures[g][1] EXCEPT
                          !.samples = ScorableSamples(c.custom_gestures[g][1].samples,
                                                      c.custom_gestures[g][1].type) ]) ] ]

\* a template of the requested kind holds a sample whose scoring fails and
\* one that can be scored
HasMalformed(g) ==
    /\ cfg.custom_gestures[g] # Nil
    /\ cfg.custom_gestures[g][1].enabled
    /\ cfg.custom_gestures[g][1].type = live.gesture_type
    /\ \E k \in 1..Len(cfg.custom_gestures[g][1].samples) :
           ~Scorable(cfg.custom_gestures[g][1].samples[k], live.gesture_type)
    /\ \E k \in 1..Len(cfg.custom_gestures[g][1].samples) :
           Scorable(cfg.custom_gestures[g][1].samples[k], live.gesture_type)

CountdownUpdate == recorder.state = "COUNTDOWN" /\ last_call'[1] = "update"

\* the remaining whole seconds the call computed, when it stayed in COUNTDOWN
remaining_after == COUNTDOWN_SECONDS - (recorder'.elapsed \div TicksPerSecond)

\* the call returned a COUNTDOWN event carrying the value
CountdownEvent(value) ==
    /\ returned' # Nil
    /\ returned'[1].event = "state_change"
    /\ returned'[1].state = "COUNTDOWN"
    /\ returned'[1].countdown = Some(value)

\* C34: within one COUNTDOWN phase update returns a COUNTDOWN event exactly
\* when the remaining whole-second count differs from the value last shown,
\* the values shown are strictly decreasing, and the update that finds 3 s
\* elapsed moves to CAPTURING; for every countdown alike, whether the first
\* of a session, one after BETWEEN, or one of a session started after a
\* cancelled or completed one.
C34_CountdownNotifications ==
    [][ CountdownUpdate =>
          IF recorder'.state = "CAPTURING"
          THEN \E dt \in RecDts :
                   Min(recorder.elapsed + dt, MaxElapsed) >= COUNTDOWN_SECONDS * TicksPerSecond
          ELSE /\ recorder'.state = "COUNTDOWN"
               /\ remaining_after >= 1
               /\ IF remaining_after # notified
                  THEN CountdownEvent(remaining_after) /\ remaining_after < notified
                  ELSE returned' = Nil
      ]_vars

\* ------------------------------------------------------------------------
\* C35.  The capture window (SpecRecorder).
\* ------------------------------------------------------------------------

\* the capture window of the session, in ticks
CaptureWindow(rec) ==
    IF rec.gesture_type = "static" THEN STATIC_CAPTURE_TICKS ELSE DYNAMIC_CAPTURE_TICKS

UpdateIn(state) == recorder.state = state /\ last_call'[1] = "update"

\* the elapsed time an update reads dt ticks after the previous call
elapsed_read(dt) == Min(recorder.elapsed + dt, MaxElapsed)

\* what update gives for a frame taken dt ticks after the previous call
UpdateOutcome(fr, dt) ==
    recorder_update(recorder, cfg, fr, Landmarks(sessions, Len(recorder.samples) + 1), dt)

\* in CAPTURING, for every frame and every frame gap: update stores a sample
\* only when it reads an elapsed time of at least the capture window, and
\* with no visible hand it changes neither the state, the frame buffer nor
\* the samples and returns no event
CapturingUpdate ==
    recorder.state = "CAPTURING" =>
        \A fr \in RecorderFrames, dt \in RecDts :
            LET r == UpdateOutcome(fr, dt)
            IN  /\ Len(r.rec.samples) > Len(recorder.samples) =>
                       /\ elapsed_read(dt) >= CaptureWindow(recorder)
                       /\ picked_hand(recorder, fr) # None
                /\ picked_hand(recorder, fr) = None =>
                       /\ r.rec.state = recorder.state
                       /\ r.rec.frame_buffer = recorder.frame_buffer
                       /\ r.rec.samples = recorder.samples
                       /\ r.event = Nil

C36_FreshSequenceAfterGap ==
    hands_lost > 0 =>
        \A h \in HandLabels : \A i \in DOMAIN dtw_input[h] :
            dtw_input[h][i] > Landmarks_at(hands_lost)
\* ------------------------------------------------------------------------
\* C37  SSE broadcast: an event given to broadcast while clients are connected
\* reaches each of them, in emission order: once the queue has been emptied,
\* every client that was connected at the broadcast and still is has been
\* sent the event, and no stream yields a later event before an earlier one.
\* ------------------------------------------------------------------------
Delivered(c, event) ==
    \E i \in DOMAIN received[c] : received[c][i] = action_message(event)

InEmissionOrder(c) ==
    \A i, j \in DOMAIN received[c] :
        (i < j /\ received[c][i].type = "ACTION" /\ received[c][j].type = "ACTION")
            => received[c][i].event < received[c][j].event

C37_DeliveredToEachClient ==
    /\ \A c \in Clients : InEmissionOrder(c)
    /\ event_queue = <<>> =>
           \A i \in DOMAIN sent : \A c \in sent[i].clients \cap clients :
               Delivered(c, sent[i].event)
\* ------------------------------------------------------------------------
\* C38  Session termination: a started session that is not cancelled, whose
\* update keeps being called with the clock advancing and a hand visible
\* again and again, returns to IDLE with one template persisted; and an
\* update in CAPTURING on a frame without a hand changes nothing: the state,
\* the stored samples and the frame buffer stay, no event is returned and
\* nothing is persisted.
\* ------------------------------------------------------------------------
SessionRunning == is_active(recorder)

SessionDone == recorder.state = "IDLE" /\ saves = 1 /\ completes = 1

AbsentHandInCapturing == recorder.state = "CAPTURING" /\ UpdateAbsent

NoProgress ==
    /\ recorder'.state = "CAPTURING"
    /\ recorder'.samples = recorder.samples
    /\ recorder'.frame_buffer = recorder.frame_buffer
    /\ returned' = Nil
    /\ saves' = saves
    /\ cfg' = cfg

C38_SessionTerminates ==
    /\ SessionRunning ~> SessionDone
    /\ [][AbsentHandInCapturing => NoProgress]_vars

\* the session is done: the template is persisted and the recorder is idle
C38_Witness ==
    /\ SessionDone
    /\ last_call[1] = "update"
    /\ returned # Nil
    /\ returned[1].event = "complete"

\* ------------------------------------------------------------------------
\* C39  Locked multiplier is stable: a locked multiplier keeps its value in
\* every following frame that reports the hand stationary, whatever the
\* finger count of that frame, a locked 0 included; in any frame it either
\* keeps its value or is cleared.
\* ------------------------------------------------------------------------
C39_LockedMultiplierStable ==
    [][ \A h \in HandLabels :
          multiplier[h] # Nil =>
              /\ multiplier'[h] = multiplier[h] \/ multiplier'[h] = Nil
              /\ (HasHand(frame'.hands, h) /\ HandOf(frame'.hands, h).is_stationary
                     /\ now' # now)
                    => multiplier'[h] = multiplier[h] ]_vars

\* a hand locked at 0 is held still with three fingers up and stays at 0
C39_Witness ==
    \E h \in HandLabels :
        /\ Stationary(h)
        /\ HandOf(frame.hands, h).finger_count = 3
        /\ multiplier[h] = Some(0)
\* ------------------------------------------------------------------------
\* C40  Every stored sample is computed from at least one captured frame and
\* only from frames buffered since the current CAPTURING phase began: the
\* i-th sample of the session is made of frames taken while the i-th sample
\* of this session was being collected, the frame buffer is empty whenever a
\* state is entered and holds frames in CAPTURING only.
\* ------------------------------------------------------------------------
SamplesFromOwnCapture ==
    \A i \in DOMAIN recorder.samples :
        /\ FramesOf(recorder.samples[i], recorder.gesture_type) # {}
        /\ FramesOf(recorder.samples[i], recorder.gesture_type)
               \subseteq { Landmarks(sessions, i) }

====
